---- MODULE Spec2Model ----
(***************************************************************************)
(* State-machine model of the study-buddy backend request handlers         *)
(* (backend/app/api/*.py) over the rows of the record store                *)
(* (backend/app/models/*.py).  Every handler is one atomic action: it      *)
(* reads the rows, applies the assignments of the handler body and         *)
(* commits.  Float columns are modelled as exact fractions, datetimes as   *)
(* whole seconds of a global clock, strings as sequences of characters.    *)
(***************************************************************************)
EXTENDS Integers, Sequences, FiniteSets, Bags, TLC

VARIABLES
    now,            \* datetime.utcnow(), in seconds
    users,          \* User rows, by id
    sessions,       \* LearningSession rows, id = index
    assessments,    \* Assessment rows, id = index
    questions,      \* Question rows, id = index
    answers,        \* Answer rows, id = index
    contents,       \* Content rows, id = index
    interactions,   \* ContentInteraction rows, id = index
    progress,       \* Progress rows, id = index
    achievements,   \* Achievement rows, as a bag (ids are not read)
    recommendations, \* Recommendation rows, id = index
    pending,        \* per request in flight: what it has read so far
    resp            \* the response of the last request

vars == <<now, users, sessions, assessments, questions, answers, contents,
          interactions, progress, achievements, recommendations, pending,
          resp>>

(***************************************************************************)
(* Bounds of the model.                                                    *)
(***************************************************************************)
MaxNow == 2
MaxAssessments == 2

\* The registered users: a caller and another user.
Users == {1, 2}

(***************************************************************************)
(* Values.                                                                 *)
(***************************************************************************)
\* Python None in a datetime / Integer column.
NoTime == -1
NoInt == -1
\* Python None in a string field (not a character string).
NoneStr == <<"None">>

\* A Float column: an exact fraction n/d with d > 0; NoFloat is NULL.
NoFloat == [n |-> 0, d |-> 0]

RECURSIVE Gcd(_, _)
Gcd(a, b) == IF b = 0 THEN a ELSE Gcd(b, a % b)

Abs(x) == IF x < 0 THEN -x ELSE x

\* The fraction n/d (d # 0) in lowest terms with a positive denominator.
Frac(n, d) ==
    LET g == Gcd(Abs(n), Abs(d))
        s == IF d < 0 THEN -1 ELSE 1
    IN [n |-> s * (n \div g), d |-> s * (d \div g)]

FInt(i) == [n |-> i, d |-> 1]
FAdd(x, y) == Frac(x.n * y.d + y.n * x.d, x.d * y.d)
FSub(x, y) == Frac(x.n * y.d - y.n * x.d, x.d * y.d)
FMul(x, y) == Frac(x.n * y.n, x.d * y.d)
\* x / y for y # 0
FDiv(x, y) == Frac(x.n * y.d, x.d * y.n)
FGeq(x, y) == x.n * y.d >= y.n * x.d

RECURSIVE SumSeq(_)
SumSeq(s) == IF s = <<>> THEN 0 ELSE Head(s) + SumSeq(Tail(s))

\* Python int(x / y) for y > 0: the quotient truncated towards zero.
TruncDiv(x, y) == IF x >= 0 THEN x \div y ELSE -((-x) \div y)

(***************************************************************************)
(* str.strip() and str.lower() over the characters of the model.           *)
(***************************************************************************)
IsSpace(c) == c = " "

LowerChar(c) == IF c = "A" THEN "a" ELSE IF c = "B" THEN "b" ELSE c

lower(s) == [i \in 1..Len(s) |-> LowerChar(s[i])]

RECURSIVE lstrip(_)
lstrip(s) == IF s # <<>> /\ IsSpace(Head(s)) THEN lstrip(Tail(s)) ELSE s

RECURSIVE rstrip(_)
rstrip(s) ==
    IF s # <<>> /\ IsSpace(s[Len(s)]) THEN rstrip(SubSeq(s, 1, Len(s) - 1)) ELSE s

strip(s) == rstrip(lstrip(s))

\* Python truthiness of an Optional[str].
Truthy(s) == s # NoneStr /\ s # <<>>

\* Python `a or b` on Optional[str].
StrOr(a, b) == IF Truthy(a) THEN a ELSE b

(***************************************************************************)
(* Responses.                                                              *)
(***************************************************************************)
Response(op, u, code, n) == [op |-> op, user |-> u, code |-> code, n |-> n]

(***************************************************************************)
(* Initial state: the registered users with the column defaults of User,   *)
(* and empty tables.                                                       *)
(***************************************************************************)
NewUser ==
    [ total_study_time_minutes |-> 0,
      total_assessments_completed |-> 0,
      average_score |-> FInt(0),
      daily_study_goal_minutes |-> 60 ]

\* The requests that can be in flight at a time, and a request that has
\* read nothing yet.
Requests == {1, 2}

Idle == [op |-> "idle", user |-> 0, current_user |-> NewUser, rows |-> {}]

Init ==
    /\ now = 0
    /\ users = [u \in Users |-> NewUser]
    /\ sessions = <<>>
    /\ assessments = <<>>
    /\ questions = <<>>
    /\ answers = <<>>
    /\ contents = <<>>
    /\ interactions = <<>>
    /\ progress = <<>>
    /\ achievements = EmptyBag
    /\ recommendations = <<>>
    /\ pending = [q \in Requests |-> Idle]
    /\ resp = Response("none", 0, 0, 0)

\* The clock advances between requests, by d seconds.
Tick(d) ==
    /\ now + d <= 2700 * MaxNow
    /\ now' = now + d
    /\ resp' = Response("tick", 0, 0, 0)
    /\ UNCHANGED <<pending, users, sessions, assessments, questions, answers,
                   contents,
                   interactions, progress, achievements, recommendations>>

(***************************************************************************)
(* Assessments (api/assessments.py).                                       *)
(***************************************************************************)
\* The create requests of the model name one subject.
NewAssessment(u, qs) ==
    [ user_id |-> u,
      subject |-> "math",
      created_at |-> now,
      status |-> "not_started",
      is_completed |-> FALSE,
      start_time |-> NoTime,
      end_time |-> NoTime,
      time_taken_minutes |-> NoFloat,
      total_questions |-> Len(qs),
      questions_answered |-> 0,
      correct_answers |-> 0,
      score_percentage |-> NoFloat ]

NewQuestion(a, q) ==
    [ assessment_id |-> a,
      correct_answer |-> q.correct_answer,
      points_possible |-> q.points_possible ]

\* POST /assessments/ : the assessment row, then one Question row per entry.
CreateAssessment(u, qs) ==
    LET a == Len(assessments) + 1 IN
    /\ assessments' = Append(assessments, NewAssessment(u, qs))
    /\ questions' = questions \o [i \in 1..Len(qs) |-> NewQuestion(a, qs[i])]
    /\ resp' = Response("create_assessment", u, 200, 0)
    /\ UNCHANGED <<pending, now, users, sessions, answers, contents,
                   interactions,
                   progress, achievements, recommendations>>

\* A lookup of an assessment by id alone, for comparison with the lookup
\* of the handlers.
FindAssessment_AnyUser(u, a) == a \in 1..Len(assessments)

\* db.query(Assessment).filter(id == a, user_id == u).first()
FindAssessment(u, a) == a \in 1..Len(assessments) /\ assessments[a].user_id = u

\* A start guard that rejects nothing.
CanStart_Anytime(assessment) == TRUE

\* A start guard that rejects only a completed assessment.
CanStart_NotCompleted(assessment) == assessment.status # "completed"

CanStart(assessment) == assessment.status = "not_started"

\* POST /assessments/{a}/start
StartAssessment(u, a) ==
    /\ UNCHANGED <<pending, now, users, sessions, questions, answers, contents,
                   interactions, progress, achievements, recommendations>>
    /\ IF ~FindAssessment(u, a)
       THEN /\ resp' = Response("start_assessment", u, 404, 0)
            /\ UNCHANGED assessments
       ELSE IF ~CanStart(assessments[a])
       THEN /\ resp' = Response("start_assessment", u, 400, 0)
            /\ UNCHANGED assessments
       ELSE /\ assessments' = [assessments EXCEPT
                                 ![a].status = "in_progress",
                                 ![a].start_time = now]
            /\ resp' = Response("start_assessment", u, 200, 0)

\* A submit guard that rejects only an assessment that was never started.
CanSubmit_Started(assessment) == assessment.status # "not_started"

CanSubmit(assessment) == assessment.status = "in_progress"

\* question_dict = {q.id: q for q in questions of the assessment}
question_dict(a) == { q \in 1..Len(questions) : questions[q].assessment_id = a }

\* Grading that compares the raw strings.
IsCorrectAnswer_Exact(answer_data, question) ==
    LET user_answer == StrOr(answer_data.answer_text, answer_data.selected_option)
    IN Truthy(user_answer) /\ user_answer = question.correct_answer

\* user_answer and user_answer.strip().lower() == correct_answer.strip().lower()
IsCorrectAnswer(answer_data, question) ==
    LET user_answer == StrOr(answer_data.answer_text, answer_data.selected_option)
    IN /\ Truthy(user_answer)
       /\ lower(strip(user_answer)) = lower(strip(question.correct_answer))

\* The Answer row of one submitted answer whose question belongs to a.
GradedAnswer(u, a, answer_data) ==
    LET question == questions[answer_data.question_id]
        ok == IsCorrectAnswer(answer_data, question)
    IN [ assessment_id |-> a,
         question_id |-> answer_data.question_id,
         user_id |-> u,
         answer_text |-> answer_data.answer_text,
         selected_option |-> answer_data.selected_option,
         points_possible |-> question.points_possible,
         is_correct |-> ok,
         points_earned |-> IF ok THEN question.points_possible ELSE 0 ]

\* The loop over submission.answers: entries whose question_id is not in
\* question_dict are skipped, every other one adds an Answer row.
RECURSIVE GradedAnswers(_, _, _)
GradedAnswers(u, a, submitted) ==
    IF submitted = <<>> THEN <<>>
    ELSE IF Head(submitted).question_id \notin question_dict(a)
         THEN GradedAnswers(u, a, Tail(submitted))
         ELSE <<GradedAnswer(u, a, Head(submitted))>>
                  \o GradedAnswers(u, a, Tail(submitted))

\* (earned_points / total_points * 100) if total_points > 0 else 0
ScorePercentage(earned_points, total_points) ==
    IF total_points > 0 THEN Frac(earned_points * 100, total_points) ELSE FInt(0)

\* A running mean weighted with the count after the increment.
NewAverageScore_CountAfter(average_score, n, score_percentage) ==
    FDiv(FAdd(FMul(average_score, FInt(n)), score_percentage), FInt(n))

\* The running mean after total_assessments_completed was incremented to n.
NewAverageScore(average_score, n, score_percentage) ==
    FDiv(FAdd(FMul(average_score, FInt(n - 1)), score_percentage), FInt(n))

\* The body of submit_assessment, run with the User object current_user
\* that get_current_user loaded for the request; the commit writes the two
\* statistics the body assigned.
SubmitAssessmentAs(u, a, submitted, current_user) ==
    /\ UNCHANGED <<now, sessions, questions, contents, interactions, progress,
                   achievements, recommendations>>
    /\ IF ~FindAssessment(u, a)
       THEN /\ resp' = Response("submit_assessment", u, 404, 0)
            /\ UNCHANGED <<assessments, answers, users>>
       ELSE IF ~CanSubmit(assessments[a])
       THEN /\ resp' = Response("submit_assessment", u, 400, 0)
            /\ UNCHANGED <<assessments, answers, users>>
       ELSE LET rows == GradedAnswers(u, a, submitted)
                correct_answers == Cardinality({ i \in 1..Len(rows) : rows[i].is_correct })
                total_points == SumSeq([i \in 1..Len(rows) |-> rows[i].points_possible])
                earned_points == SumSeq([i \in 1..Len(rows) |-> rows[i].points_earned])
                score == ScorePercentage(earned_points, total_points)
                n == current_user.total_assessments_completed + 1
            IN /\ answers' = answers \o rows
               /\ assessments' = [assessments EXCEPT
                     ![a].end_time = now,
                     ![a].is_completed = TRUE,
                     ![a].status = "completed",
                     ![a].questions_answered = Len(submitted),
                     ![a].correct_answers = correct_answers,
                     ![a].score_percentage = score,
                     ![a].time_taken_minutes =
                         IF assessments[a].start_time # NoTime
                         THEN Frac(now - assessments[a].start_time, 60)
                         ELSE assessments[a].time_taken_minutes]
               /\ users' = [users EXCEPT
                     ![u].total_assessments_completed = n,
                     ![u].average_score =
                         IF n > 0
                         THEN NewAverageScore(current_user.average_score, n, score)
                         ELSE current_user.average_score]
               /\ resp' = Response("submit_assessment", u, 200, correct_answers)

\* POST /assessments/{a}/submit, user loaded and body run in one step.
SubmitAssessment(u, a, submitted) ==
    /\ SubmitAssessmentAs(u, a, submitted, users[u])
    /\ UNCHANGED pending

\* Sequences over S of length at most n.
SeqsUpTo(S, n) == UNION { [1..k -> S] : k \in 0..n }

(***************************************************************************)
(* The assessment lifecycle: create, start and submit by two users, each   *)
(* assessment with a one-point and a two-point question.                   *)
(***************************************************************************)
Q(correct_answer, points_possible) ==
    [correct_answer |-> correct_answer, points_possible |-> points_possible]

A(question_id, answer_text, selected_option) ==
    [question_id |-> question_id, answer_text |-> answer_text,
     selected_option |-> selected_option]

Min(S) == CHOOSE x \in S : \A y \in S : x <= y
Max(S) == CHOOSE x \in S : \A y \in S : x >= y

PlainQuiz == << Q(<<"a">>, 1), Q(<<"a">>, 2) >>

\* Submitted answer lists: empty, one right answer, a question id that is
\* not of the assessment, and a right answer with a wrong one.
PlainSubmissions(a) ==
    LET ids == question_dict(a)
        q1 == IF ids = {} THEN 0 ELSE Min(ids)
        q2 == IF ids = {} THEN 0 ELSE Max(ids)
    IN { <<>>,
         << A(q1, <<"a">>, NoneStr) >>,
         << A(0, <<"a">>, NoneStr) >>,
         << A(q1, <<"b">>, NoneStr), A(q2, <<"a">>, NoneStr) >> }

NextAssessment ==
    \/ \E u \in Users :
          Len(assessments) < MaxAssessments /\ CreateAssessment(u, PlainQuiz)
    \/ \E u \in Users : \E a \in 1..(Len(assessments) + 1) : StartAssessment(u, a)
    \/ \E u \in Users : \E a \in 1..(Len(assessments) + 1) :
          \E submitted \in PlainSubmissions(a) : SubmitAssessment(u, a, submitted)

SpecAssessment == Init /\ [][NextAssessment]_vars

(***************************************************************************)
(* Properties of the assessment lifecycle.                                 *)
(***************************************************************************)
OtherThanAssessments ==
    <<now, users, sessions, questions, answers, contents, interactions,
      progress, achievements, recommendations>>

\* C1: a start request on the caller's assessment succeeds (200) exactly
\* when its status is not_started, and then the status becomes in_progress
\* and start_time is the time of the request; in every other status the
\* response is 400 and no row of any table changes.
C1_StartRequiresNotStarted ==
    [][\A u \in Users : \A a \in 1..Len(assessments) :
          ( /\ assessments[a].user_id = u
            /\ resp'.op = "start_assessment" /\ resp'.user = u
            /\ StartAssessment(u, a) ) =>
              IF assessments[a].status = "not_started"
              THEN /\ resp'.code = 200
                   /\ assessments'[a] =
                         [assessments[a] EXCEPT !.status = "in_progress",
                                                !.start_time = now]
              ELSE /\ resp'.code = 400
                   /\ assessments' = assessments
                   /\ UNCHANGED OtherThanAssessments]_vars

\* A start request was just refused with 400 while one assessment is
\* completed and another one was started and carries its start_time.
C1_Witness ==
    /\ resp.op = "start_assessment" /\ resp.code = 400
    /\ \E a, b \in 1..Len(assessments) :
          /\ assessments[a].status = "completed"
          /\ assessments[b].status = "in_progress"
          /\ assessments[b].start_time # NoTime

\* C2: a submit request on the caller's assessment is accepted (200) only
\* when its status is in_progress; in every other status the response is
\* 400 and the Answer rows, the Assessment rows and the User rows are
\* unchanged.
C2_SubmitRequiresInProgress ==
    [][\A u \in Users : \A a \in 1..Len(assessments) :
          ( /\ assessments[a].user_id = u
            /\ resp'.op = "submit_assessment" /\ resp'.user = u ) =>
              \A submitted \in PlainSubmissions(a) :
                 SubmitAssessment(u, a, submitted) =>
                     IF assessments[a].status = "in_progress"
                     THEN resp'.code = 200
                     ELSE /\ resp'.code = 400
                          /\ answers' = answers
                          /\ assessments' = assessments
                          /\ users' = users]_vars

\* A submit request was just refused with 400 while the caller-visible
\* tables hold a completed assessment with Answer rows and one not started.
C2_Witness ==
    /\ resp.op = "submit_assessment" /\ resp.code = 400
    /\ Len(answers) > 0
    /\ \E a, b \in 1..Len(assessments) :
          /\ assessments[a].status = "completed"
          /\ assessments[b].status = "not_started"

\* The assessments the user has submitted.
CompletedOf(u) ==
    { a \in 1..Len(assessments) :
         assessments[a].user_id = u /\ assessments[a].status = "completed" }

RECURSIVE FSumOver(_, _)
FSumOver(S, f) ==
    IF S = {} THEN FInt(0)
    ELSE LET x == CHOOSE y \in S : TRUE
         IN FAdd(f[x], FSumOver(S \ {x}, f))

\* The arithmetic mean of the score_percentage of the assessments in S.
MeanScore(S) ==
    FDiv(FSumOver(S, [a \in S |-> assessments[a].score_percentage]),
         FInt(Cardinality(S)))

\* C4: for every user who has submitted k >= 1 assessments, average_score
\* is the arithmetic mean of the k score_percentage values (every order of
\* submission is a behaviour of the specification).
C4_AverageIsMean ==
    \A u \in Users :
        CompletedOf(u) # {} => users[u].average_score = MeanScore(CompletedOf(u))

\* A user has submitted two assessments with different scores, the one
\* created later first.
C4_Witness ==
    \E u \in Users : \E a, b \in CompletedOf(u) :
        /\ a < b
        /\ assessments[a].score_percentage # assessments[b].score_percentage
        /\ Len(answers) >= 2
        /\ answers[1].assessment_id = b
        /\ answers[Len(answers)].assessment_id = a

(***************************************************************************)
(* Grading: one assessment whose questions and submitted answers range     *)
(* over strings with blanks, capitals, the empty string and None.          *)
(***************************************************************************)
GradedQuizzes ==
    { << Q(<<"a">>, 1), Q(<<"A", " ">>, 2) >>,
      << Q(<<>>, 2), Q(<<" ", "a">>, 1) >>,
      << Q(<<>>, 1) >> }

\* (answer_text, selected_option) of a submitted answer.
AnswerForms ==
    { <<NoneStr, NoneStr>>, <<NoneStr, <<"a">> >>, << <<>>, <<>> >>,
      << <<" ", "A">>, NoneStr>>, << <<"b">>, <<"a">> >>, << <<" ">>, NoneStr>> }

GradedAnswerInputs(a) ==
    { A(q, f[1], f[2]) : q \in question_dict(a) \cup {0}, f \in AnswerForms }

GradedSubmissions(a) == SeqsUpTo(GradedAnswerInputs(a), 2)

NextGrading ==
    \/ \E u \in Users : \E qs \in GradedQuizzes :
          assessments = <<>> /\ CreateAssessment(u, qs)
    \/ \E u \in Users : \E a \in 1..(Len(assessments) + 1) : StartAssessment(u, a)
    \/ \E u \in Users : \E a \in 1..(Len(assessments) + 1) :
          \E submitted \in GradedSubmissions(a) : SubmitAssessment(u, a, submitted)

SpecGrading == Init /\ [][NextGrading]_vars

\* The Answer rows of assessment a.
AnswersOf(a) == { i \in 1..Len(answers) : answers[i].assessment_id = a }

RECURSIVE SumOver(_, _)
SumOver(S, f) ==
    IF S = {} THEN 0
    ELSE LET x == CHOOSE y \in S : TRUE IN f[x] + SumOver(S \ {x}, f)

\* total_points: the points_possible of the Answer rows of the assessment.
TotalPointsOf(a) ==
    SumOver(AnswersOf(a), [i \in AnswersOf(a) |-> answers[i].points_possible])

\* The text an Answer row submitted: answer_text, or selected_option when
\* answer_text is missing or empty.
SubmittedText(answer) == StrOr(answer.answer_text, answer.selected_option)

\* The submitted text, trimmed and compared case-insensitively, equals the
\* question's correct_answer.
MatchesCorrectAnswer(answer) ==
    /\ SubmittedText(answer) # NoneStr
    /\ lower(strip(SubmittedText(answer)))
          = lower(strip(questions[answer.question_id].correct_answer))

EarnedPointsOf(a, Correct(_)) ==
    SumOver(AnswersOf(a),
            [i \in AnswersOf(a) |->
                IF Correct(answers[i]) THEN answers[i].points_possible ELSE 0])

ScoreIs(a, Correct(_)) ==
    assessments[a].score_percentage =
        IF TotalPointsOf(a) > 0
        THEN Frac(100 * EarnedPointsOf(a, Correct), TotalPointsOf(a))
        ELSE FInt(0)

\* C3 as stated: every submitted assessment has score_percentage =
\* 100 * earned_points / total_points (0 when total_points is 0), where
\* earned_points sums points_possible over the answers whose submitted
\* text, trimmed and compared case-insensitively, equals correct_answer.
C3_ScoreAsStated ==
    \A a \in 1..Len(assessments) :
        assessments[a].status = "completed" => ScoreIs(a, MatchesCorrectAnswer)

\* The grading of the handler: an empty submitted text is never correct.
MatchesNonEmpty(answer) ==
    Truthy(SubmittedText(answer)) /\ MatchesCorrectAnswer(answer)

\* C3 amended: as C3, with earned_points summed over the answers whose
\* submitted text is non-empty and, trimmed and lower-cased, equals the
\* trimmed and lower-cased correct_answer.
C3_ScoreNonEmptyMatch ==
    \A a \in 1..Len(assessments) :
        assessments[a].status = "completed" => ScoreIs(a, MatchesNonEmpty)

\* A submitted assessment with two Answer rows of different points, one
\* graded correct through trimming and lower-casing and one graded wrong.
C3_Witness ==
    \E a \in 1..Len(assessments) :
        /\ assessments[a].status = "completed"
        /\ \E i, j \in AnswersOf(a) :
              /\ answers[i].is_correct /\ ~answers[j].is_correct
              /\ answers[i].points_possible # answers[j].points_possible
              /\ answers[i].answer_text # questions[answers[i].question_id].correct_answer
              /\ answers[i].answer_text # NoneStr

(***************************************************************************)
(* Learning sessions (api/learning.py).                                    *)
(***************************************************************************)
MaxSessions == 2
MaxStudyMinutes == 135

\* An Optional field the request body does not set.
UnsetTime == -2
UnsetInt == -2

NewSession(u) ==
    [ user_id |-> u,
      start_time |-> now,
      end_time |-> NoTime,
      duration_minutes |-> NoInt,
      completion_percentage |-> 0,
      is_completed |-> FALSE ]

\* POST /learning/sessions
CreateSession(u) ==
    /\ sessions' = Append(sessions, NewSession(u))
    /\ resp' = Response("create_session", u, 200, 0)
    /\ UNCHANGED <<pending, now, users, assessments, questions, answers, contents,
                   interactions, progress, achievements, recommendations>>

\* A lookup of a session by id alone, for comparison with the lookup of
\* the handlers.
FindSession_AnyUser(u, s) == s \in 1..Len(sessions)

\* db.query(LearningSession).filter(id == s, user_id == u).first()
FindSession(u, s) == s \in 1..Len(sessions) /\ sessions[s].user_id = u

\* int(duration.total_seconds() / 60)
DurationMinutes(start_time, end_time) == TruncDiv(end_time - start_time, 60)

\* PUT /learning/sessions/{s}: the fields the body sets are assigned, and
\* duration_minutes is derived when the body carries an end_time.
UpdateSession(u, s, upd) ==
    /\ UNCHANGED <<pending, now, users, assessments, questions, answers, contents,
                   interactions, progress, achievements, recommendations>>
    /\ IF ~FindSession(u, s)
       THEN /\ resp' = Response("update_session", u, 404, 0)
            /\ UNCHANGED sessions
       ELSE /\ sessions' = [sessions EXCEPT
                 ![s].end_time =
                     IF upd.end_time # UnsetTime THEN upd.end_time ELSE @,
                 ![s].completion_percentage =
                     IF upd.completion_percentage # UnsetInt
                     THEN upd.completion_percentage ELSE @,
                 ![s].duration_minutes =
                     IF upd.end_time # UnsetTime /\ upd.end_time # NoTime
                     THEN DurationMinutes(sessions[s].start_time, upd.end_time)
                     ELSE @]
            /\ resp' = Response("update_session", u, 200, 0)

\* if session.duration_minutes: total_study_time_minutes += duration_minutes
RolledMinutes(session, duration_minutes) ==
    IF duration_minutes # NoInt /\ duration_minutes # 0 THEN duration_minutes ELSE 0

\* POST /learning/sessions/{s}/complete
CompleteSession(u, s) ==
    /\ UNCHANGED <<pending, now, assessments, questions, answers, contents,
                   interactions, progress, achievements, recommendations>>
    /\ IF ~FindSession(u, s)
       THEN /\ resp' = Response("complete_session", u, 404, 0)
            /\ UNCHANGED <<sessions, users>>
       ELSE LET duration_minutes == DurationMinutes(sessions[s].start_time, now)
            IN /\ sessions' = [sessions EXCEPT
                     ![s].is_completed = TRUE,
                     ![s].end_time = now,
                     ![s].completion_percentage = 100,
                     ![s].duration_minutes = duration_minutes]
               /\ users' = [users EXCEPT
                     ![u].total_study_time_minutes =
                         @ + RolledMinutes(sessions[s], duration_minutes)]
               /\ resp' = Response("complete_session", u, 200, 0)

\* Bodies of the update request: an end_time or a completion percentage.
SessionUpdates ==
    [end_time : {UnsetTime, 2730}, completion_percentage : {UnsetInt, 50}]

NextLearning ==
    \/ Tick(2700)
    \/ \E u \in Users : Len(sessions) < MaxSessions /\ CreateSession(u)
    \/ \E u \in Users : \E s \in 1..(Len(sessions) + 1) :
          \E upd \in SessionUpdates : UpdateSession(u, s, upd)
    \/ \E u \in Users : \E s \in 1..(Len(sessions) + 1) :
          /\ users[u].total_study_time_minutes < MaxStudyMinutes
          /\ CompleteSession(u, s)

SpecLearning == Init /\ [][NextLearning]_vars

\* C5: a complete call adds the session's duration to the owner's
\* total_study_time_minutes when the session was not yet completed, and
\* adds nothing when the session is already completed.
C5_DurationRolledOnce ==
    [][\A u \in Users : \A s \in 1..Len(sessions) :
          (CompleteSession(u, s) /\ sessions[s].user_id = u) =>
              users'[u].total_study_time_minutes
                  - users[u].total_study_time_minutes
                = IF sessions[s].is_completed THEN 0
                  ELSE sessions'[s].duration_minutes]_vars

(***************************************************************************)
(* Achievements (api/progress.py).  Of an Achievement row the model keeps  *)
(* the columns the lookups and the inserts key on; icons, texts and        *)
(* unlocked_at are left out.                                               *)
(***************************************************************************)
MaxProgress == 1

streak_milestones == {7, 14, 30, 60, 100}
time_milestones == {600, 1200, 3000, 6000, 12000}
mastery_milestones == {1, 3, 5, 10}

\* f"{n}{text}"
Title(n, text) == <<n, text>>
Perfectionist == <<"Perfectionist">>

NewProgress(u, streak_days, is_mastered) ==
    [ user_id |-> u, subject |-> "math", topic |-> NoneStr,
      streak_days |-> streak_days, is_mastered |-> is_mastered ]

\* A Progress row of the user is inserted, or an existing one gets a new
\* streak and mastery flag.
WriteProgress(u, i, streak_days, is_mastered) ==
    /\ IF i = Len(progress) + 1
       THEN /\ Len(progress) < MaxProgress
            /\ progress' = Append(progress, NewProgress(u, streak_days, is_mastered))
       ELSE /\ progress[i].user_id = u
            /\ progress' = [progress EXCEPT
                  ![i].streak_days = streak_days,
                  ![i].is_mastered = is_mastered]
    /\ resp' = Response("progress", u, 200, 0)
    /\ UNCHANGED <<pending, now, users, sessions, assessments, questions, answers,
                   contents, interactions, achievements, recommendations>>

\* current_user.total_study_time_minutes += duration_minutes
StudyTimeChanges(u, duration_minutes) ==
    /\ users' = [users EXCEPT ![u].total_study_time_minutes = @ + duration_minutes]
    /\ resp' = Response("study_time", u, 200, 0)
    /\ UNCHANGED <<pending, now, sessions, assessments, questions, answers, contents,
                   interactions, progress, achievements, recommendations>>

\* The user statistics after an assessment scored score_percentage.
AssessmentScored(u, score_percentage) ==
    LET n == users[u].total_assessments_completed + 1
    IN /\ users' = [users EXCEPT
             ![u].total_assessments_completed = n,
             ![u].average_score =
                 NewAverageScore(users[u].average_score, n, score_percentage)]
       /\ resp' = Response("scored", u, 200, 0)
       /\ UNCHANGED <<pending, now, sessions, assessments, questions, answers, contents,
                      interactions, progress, achievements, recommendations>>

NewAchievement(u, achievement_type, title, points_awarded, threshold_value) ==
    [ user_id |-> u,
      achievement_type |-> achievement_type,
      title |-> title,
      points_awarded |-> points_awarded,
      threshold_value |-> threshold_value,
      is_unlocked |-> TRUE ]

\* A lookup that matches the milestone against points_awarded.
ExistingAchievement_ByPoints(u, achievement_type, milestone) ==
    \E row \in BagToSet(achievements) :
        /\ row.user_id = u
        /\ row.achievement_type = achievement_type
        /\ row.points_awarded = milestone

\* db.query(Achievement).filter(user_id, achievement_type,
\*                              threshold_value == milestone).first()
ExistingAchievement(u, achievement_type, milestone) ==
    \E row \in BagToSet(achievements) :
        /\ row.user_id = u
        /\ row.achievement_type = achievement_type
        /\ row.threshold_value = milestone

\* A lookup that filters on the type "perfect".
ExistingPerfectionist_OtherType(u) ==
    \E row \in BagToSet(achievements) :
        /\ row.user_id = u
        /\ row.achievement_type = "perfect"
        /\ row.title = Perfectionist

\* db.query(Achievement).filter(user_id, achievement_type == "assessment",
\*                              title == "Perfectionist").first()
ExistingPerfectionist(u) ==
    \E row \in BagToSet(achievements) :
        /\ row.user_id = u
        /\ row.achievement_type = "assessment"
        /\ row.title = Perfectionist

\* func.max(Progress.streak_days) of the user's rows, or 0
max_streak(u) ==
    Max({ progress[i].streak_days :
            i \in { j \in 1..Len(progress) : progress[j].user_id = u } } \cup {0})

\* The count of the user's Progress rows with is_mastered.
mastered_subjects(u) ==
    Cardinality({ i \in 1..Len(progress) :
                    progress[i].user_id = u /\ progress[i].is_mastered })

\* A check that unlocks a milestone only once the aggregate has passed it.
Unlocked_PastMilestone(u) ==
    { NewAchievement(u, "streak", Title(m, "-Day Study Streak"), m * 2, m) :
        m \in { k \in streak_milestones :
                  max_streak(u) > k /\ ~ExistingAchievement(u, "streak", k) } }
    \cup
    { NewAchievement(u, "time", Title(m \div 60, "-Hour Scholar"),
                     (m \div 60) * 5, m) :
        m \in { k \in time_milestones :
                  /\ users[u].total_study_time_minutes > k
                  /\ ~ExistingAchievement(u, "time", k) } }
    \cup
    ( IF FGeq(users[u].average_score, FInt(95)) /\ ~ExistingPerfectionist(u)
      THEN { NewAchievement(u, "assessment", Perfectionist, 100, 95) }
      ELSE {} )
    \cup
    { NewAchievement(u, "mastery", Title(m, " Subject"), m * 50, m) :
        m \in { k \in mastery_milestones :
                  mastered_subjects(u) > k /\ ~ExistingAchievement(u, "mastery", k) } }

\* The rows one check inserts.
Unlocked(u) ==
    { NewAchievement(u, "streak", Title(m, "-Day Study Streak"), m * 2, m) :
        m \in { k \in streak_milestones :
                  max_streak(u) >= k /\ ~ExistingAchievement(u, "streak", k) } }
    \cup
    { NewAchievement(u, "time", Title(m \div 60, "-Hour Scholar"),
                     (m \div 60) * 5, m) :
        m \in { k \in time_milestones :
                  /\ users[u].total_study_time_minutes >= k
                  /\ ~ExistingAchievement(u, "time", k) } }
    \cup
    ( IF FGeq(users[u].average_score, FInt(95)) /\ ~ExistingPerfectionist(u)
      THEN { NewAchievement(u, "assessment", Perfectionist, 100, 95) }
      ELSE {} )
    \cup
    { NewAchievement(u, "mastery", Title(m, " Subject"), m * 50, m) :
        m \in { k \in mastery_milestones :
                  mastered_subjects(u) >= k /\ ~ExistingAchievement(u, "mastery", k) } }

\* POST /progress/achievements/check
CheckAchievements(u) ==
    /\ achievements' = achievements (+) SetToBag(Unlocked(u))
    /\ resp' = Response("check_achievements", u, 200, Cardinality(Unlocked(u)))
    /\ UNCHANGED <<pending, now, users, sessions, assessments, questions, answers,
                   contents, interactions, progress, recommendations>>

\* What is written to a Progress row: a one-week streak, or a two-week
\* streak with the subject mastered.
ProgressValues ==
    { [ streak_days |-> 7, is_mastered |-> FALSE ],
      [ streak_days |-> 14, is_mastered |-> TRUE ] }

Scores == {FInt(0), FInt(100)}

\* The study time and the completed assessments of all users together.
AllStudyTime ==
    SumOver(Users, [ u \in Users |-> users[u].total_study_time_minutes ])
AllCompleted ==
    SumOver(Users, [ u \in Users |-> users[u].total_assessments_completed ])

NextAchievements ==
    \/ \E u \in Users : \E i \in 1..(Len(progress) + 1) :
          \E v \in ProgressValues :
              WriteProgress(u, i, v.streak_days, v.is_mastered)
    \/ \E u \in Users :
          /\ AllStudyTime < Min(time_milestones)
          /\ StudyTimeChanges(u, Min(time_milestones))
    \/ \E u \in Users : \E score \in Scores :
          /\ AllCompleted < MaxAssessments
          /\ AssessmentScored(u, score)
    \/ \E u \in Users : CheckAchievements(u)

SpecAchievements == Init /\ [][NextAchievements]_vars

\* The Achievement rows of a user for a type and a threshold, with copies.
RowsFor(u, achievement_type, threshold_value) ==
    SumOver({ row \in BagToSet(achievements) :
                /\ row.user_id = u
                /\ row.achievement_type = achievement_type
                /\ row.threshold_value = threshold_value },
            [ row \in BagToSet(achievements) |-> CopiesIn(row, achievements) ])

\* The Achievement rows of a user titled "Perfectionist", with copies.
PerfectionistRows(u) ==
    SumOver({ row \in BagToSet(achievements) :
                row.user_id = u /\ row.title = Perfectionist },
            [ row \in BagToSet(achievements) |-> CopiesIn(row, achievements) ])

\* C6: a check that directly follows a check by the same user reports
\* achievements_unlocked = 0 and leaves the Achievement rows as they were.
C6_CheckIdempotent ==
    [][\A u \in Users :
          (resp.op = "check_achievements" /\ resp.user = u /\ CheckAchievements(u))
            => (resp'.n = 0 /\ achievements' = achievements)]_vars

\* A check that unlocked nothing for a user who holds two achievements.
C6_Witness ==
    /\ resp.op = "check_achievements"
    /\ resp.n = 0
    /\ \E r1, r2 \in BagToSet(achievements) :
          r1 # r2 /\ r1.user_id = resp.user /\ r2.user_id = resp.user

\* C7: whatever checks and aggregate changes occurred, a user has at most
\* one Achievement row per (achievement_type, threshold_value), and at most
\* one titled "Perfectionist".
C7_AchievementsUnique ==
    \A u \in Users :
        /\ \A row \in BagToSet(achievements) :
              RowsFor(u, row.achievement_type, row.threshold_value) <= 1
        /\ PerfectionistRows(u) <= 1

\* After a check, a user holds the 14-day streak and the Perfectionist
\* achievements while the streak and the average have since fallen.
C7_Witness ==
    /\ resp.op = "check_achievements"
    /\ ExistingAchievement(resp.user, "streak", 14)
    /\ max_streak(resp.user) < 14
    /\ ExistingPerfectionist(resp.user)
    /\ ~FGeq(users[resp.user].average_score, FInt(95))

\* The milestone tables of a check with the aggregate each is compared to.
MilestoneTables(u) ==
    { [ achievement_type |-> "streak", milestones |-> streak_milestones,
        aggregate |-> max_streak(u) ],
      [ achievement_type |-> "time", milestones |-> time_milestones,
        aggregate |-> users[u].total_study_time_minutes ],
      [ achievement_type |-> "mastery", milestones |-> mastery_milestones,
        aggregate |-> mastered_subjects(u) ] }

\* An unlocked Achievement row of the user for a type and a milestone.
UnlockedRow(rows, u, achievement_type, milestone) ==
    \E row \in BagToSet(rows) :
        /\ row.user_id = u
        /\ row.achievement_type = achievement_type
        /\ row.threshold_value = milestone
        /\ row.is_unlocked

\* C22: right after a check, for each of the streak, time and mastery
\* tables an unlocked Achievement exists for every milestone that is at
\* most the current aggregate, and the check created none for a milestone
\* above the aggregate.
C22_MilestonesUnlocked ==
    [][\A u \in Users :
          (resp'.op = "check_achievements" /\ resp'.user = u /\ CheckAchievements(u))
            => \A t \in MilestoneTables(u) : \A m \in t.milestones :
                  IF m <= t.aggregate
                  THEN UnlockedRow(achievements', u, t.achievement_type, m)
                  ELSE \A row \in BagToSet(achievements') :
                          ( /\ row.user_id = u
                            /\ row.achievement_type = t.achievement_type
                            /\ row.threshold_value = m )
                            => CopiesIn(row, achievements') = CopiesIn(row, achievements)]_vars

\* After a check, a user with a 14-day streak, 600 minutes of study and one
\* mastered row holds the 7- and 14-day, the 600-minute and the 1-subject
\* achievements and none for 30 days, 1200 minutes or 3 subjects.
C22_Witness ==
    /\ resp.op = "check_achievements"
    /\ max_streak(resp.user) = 14
    /\ users[resp.user].total_study_time_minutes = 600
    /\ mastered_subjects(resp.user) = 1
    /\ UnlockedRow(achievements, resp.user, "streak", 7)
    /\ UnlockedRow(achievements, resp.user, "streak", 14)
    /\ UnlockedRow(achievements, resp.user, "time", 600)
    /\ UnlockedRow(achievements, resp.user, "mastery", 1)
    /\ ~ExistingAchievement(resp.user, "streak", 30)
    /\ ~ExistingAchievement(resp.user, "time", 1200)
    /\ ~ExistingAchievement(resp.user, "mastery", 3)

(***************************************************************************)
(* Mastery by subject and topic.  A Progress row is the progress of one    *)
(* user in one topic of one subject (models/progress.py l.13-16).          *)
(***************************************************************************)
MaxTopics == 3

Subjects == {"math", "physics"}
Topics == {"algebra", "geometry"}

\* A Progress row for a topic of a subject is inserted.
WriteTopic(u, subject, topic, is_mastered) ==
    /\ Len(progress) < MaxTopics
    /\ progress' = Append(progress,
          [NewProgress(u, 0, is_mastered) EXCEPT !.subject = subject, !.topic = topic])
    /\ resp' = Response("progress", u, 200, 0)
    /\ UNCHANGED <<pending, now, users, sessions, assessments, questions, answers,
                   contents, interactions, achievements, recommendations>>

NextMastery ==
    \/ \E u \in Users : \E subject \in Subjects : \E topic \in Topics :
          \E is_mastered \in BOOLEAN : WriteTopic(u, subject, topic, is_mastered)
    \/ \E u \in Users : CheckAchievements(u)

SpecMastery == Init /\ [][NextMastery]_vars

\* The distinct subjects in which the user has a mastered Progress row.
SubjectsMastered(u) ==
    { progress[i].subject :
        i \in { j \in 1..Len(progress) :
                  progress[j].user_id = u /\ progress[j].is_mastered } }

\* C23: a check unlocks the mastery achievement for milestone m only when
\* the user has at least m distinct subjects with a mastered row; mastered
\* rows for several topics of one subject count as one subject.
C23_MasteryCountsSubjects ==
    [][\A u \in Users :
          (resp'.op = "check_achievements" /\ resp'.user = u /\ CheckAchievements(u))
            => \A m \in mastery_milestones :
                  ( /\ ~ExistingAchievement(u, "mastery", m)
                    /\ UnlockedRow(achievements', u, "mastery", m) )
                    => Cardinality(SubjectsMastered(u)) >= m]_vars

(***************************************************************************)
(* Content, interactions and ratings (api/content.py).  Of a Content row   *)
(* the model keeps the rating and completion statistics, of an interaction *)
(* its key, progress, rating and completion flag.                          *)
(***************************************************************************)
MaxContents == 1

\* The create requests of the model describe a medium article on one
\* subject.
NewContent ==
    [ content_type |-> "article",
      subject |-> "math",
      difficulty_level |-> "medium",
      is_active |-> TRUE,
      average_rating |-> NoFloat,
      total_ratings |-> 0,
      completion_count |-> 0 ]

\* POST /content/
CreateContent(u) ==
    /\ contents' = Append(contents, NewContent)
    /\ resp' = Response("create_content", u, 200, 0)
    /\ UNCHANGED <<pending, now, users, sessions, assessments, questions, answers,
                   interactions, progress, achievements, recommendations>>

\* POST /content/ with a content_type and a difficulty_level in the body.
CreateContentOf(u, content_type, difficulty_level) ==
    /\ contents' = Append(contents,
          [NewContent EXCEPT !.content_type = content_type,
                             !.difficulty_level = difficulty_level])
    /\ resp' = Response("create_content", u, 200, 0)
    /\ UNCHANGED <<pending, now, users, sessions, assessments, questions, answers,
                   interactions, progress, achievements, recommendations>>

\* A lookup that also asks for a completed row.
ExistingInteractions_Completed(u, c, interaction_type) ==
    { i \in 1..Len(interactions) :
        /\ interactions[i].user_id = u
        /\ interactions[i].content_id = c
        /\ interactions[i].interaction_type = interaction_type
        /\ interactions[i].is_completed }

\* The rows of the user for the content and the interaction type, by id.
ExistingInteractions(u, c, interaction_type) ==
    { i \in 1..Len(interactions) :
        /\ interactions[i].user_id = u
        /\ interactions[i].content_id = c
        /\ interactions[i].interaction_type = interaction_type }

NewInteraction(u, c, interaction_type, progress_percentage, rating) ==
    [ user_id |-> u,
      content_id |-> c,
      interaction_type |-> interaction_type,
      start_time |-> now,
      progress_percentage |-> progress_percentage,
      rating |-> rating,
      is_completed |-> FALSE ]

\* POST /content/interactions
CreateContentInteraction(u, data) ==
    LET c == data.content_id
        existing == ExistingInteractions(u, c, data.interaction_type)
    IN /\ UNCHANGED <<pending, now, users, sessions, assessments, questions, answers,
                      progress, achievements, recommendations>>
       /\ IF c \notin 1..Len(contents)
          THEN /\ resp' = Response("create_interaction", u, 404, 0)
               /\ UNCHANGED <<contents, interactions>>
          ELSE IF existing # {}
          THEN LET i == Min(existing)
               IN /\ interactions' = [interactions EXCEPT
                        ![i].progress_percentage = data.progress_percentage,
                        ![i].rating =
                            IF data.rating # NoInt /\ data.rating # 0
                            THEN data.rating ELSE @,
                        ![i].is_completed =
                            IF data.progress_percentage >= 100 THEN TRUE ELSE @]
                  /\ resp' = Response("create_interaction", u, 200, i)
                  /\ UNCHANGED contents
          ELSE LET row == NewInteraction(u, c, data.interaction_type,
                                         data.progress_percentage, data.rating)
                   completed == data.progress_percentage >= 100
               IN /\ interactions' = Append(interactions,
                        IF completed THEN [row EXCEPT !.is_completed = TRUE]
                        ELSE row)
                  /\ contents' = [contents EXCEPT
                        ![c].completion_count = IF completed THEN @ + 1 ELSE @]
                  /\ resp' = Response("create_interaction", u, 200,
                                      Len(interactions) + 1)

\* The average after one existing rating was replaced.
EditedAverage(average_rating, total_ratings, old_rating, rating) ==
    FDiv(FAdd(FSub(FMul(average_rating, FInt(total_ratings)), FInt(old_rating)),
              FInt(rating)),
         FInt(total_ratings))

\* The average after one more rating.
AddedAverage(average_rating, total_ratings, rating) ==
    IF total_ratings > 0
    THEN FDiv(FAdd(FMul(average_rating, FInt(total_ratings)), FInt(rating)),
              FInt(total_ratings + 1))
    ELSE FInt(rating)

\* POST /content/{c}/rate.  A failed arithmetic on a missing rating and the
\* rounding of a missing average in the response are server errors; the
\* first happens before the commit, the second after it.
RateContent(u, c, rating) ==
    LET existing == ExistingInteractions(u, c, "rate")
    IN /\ UNCHANGED <<pending, now, users, sessions, assessments, questions, answers,
                      progress, achievements, recommendations>>
       /\ IF c \notin 1..Len(contents)
          THEN /\ resp' = Response("rate_content", u, 404, 0)
               /\ UNCHANGED <<contents, interactions>>
          ELSE IF existing # {}
          THEN LET i == Min(existing)
                   old_rating == interactions[i].rating
               IN IF contents[c].total_ratings > 0
                  THEN IF old_rating = NoInt
                       THEN /\ resp' = Response("rate_content", u, 500, 0)
                            /\ UNCHANGED <<contents, interactions>>
                       ELSE /\ interactions' =
                                 [interactions EXCEPT ![i].rating = rating]
                            /\ contents' = [contents EXCEPT
                                 ![c].average_rating =
                                     EditedAverage(@, contents[c].total_ratings,
                                                   old_rating, rating)]
                            /\ resp' = Response("rate_content", u, 200, rating)
                  ELSE /\ interactions' =
                            [interactions EXCEPT ![i].rating = rating]
                       /\ UNCHANGED contents
                       /\ resp' = Response("rate_content", u,
                              IF contents[c].average_rating = NoFloat
                              THEN 500 ELSE 200, rating)
          ELSE /\ interactions' = Append(interactions,
                     NewInteraction(u, c, "rate", 0, rating))
               /\ contents' = [contents EXCEPT
                     ![c].average_rating =
                         AddedAverage(@, contents[c].total_ratings, rating),
                     ![c].total_ratings = @ + 1]
               /\ resp' = Response("rate_content", u, 200, rating)

\* Bodies of the record-interaction request that carry a 'rate'
\* interaction, with and without a rating.
RateBodies(c) ==
    { [ content_id |-> c, interaction_type |-> "rate",
        progress_percentage |-> 0, rating |-> 5 ],
      [ content_id |-> c, interaction_type |-> "rate",
        progress_percentage |-> 0, rating |-> NoInt ] }

\* Bodies that report progress: half way and to the end.
ProgressBodies(c) ==
    { [ content_id |-> c, interaction_type |-> t,
        progress_percentage |-> p, rating |-> NoInt ] :
        t \in {"view", "complete"}, p \in {50, 100} }

Ratings == {3, 5}

\* rating: int = Query(..., ge=1, le=5)
MinRating == 1

\* Ratings: two users rate and re-rate a content through both endpoints,
\* as long as its average has not left the rating scale.
NextRatings ==
    \/ \E u \in Users : Len(contents) < MaxContents /\ CreateContent(u)
    \/ \E u \in Users : \E c \in 1..(Len(contents) + 1) :
          \E data \in RateBodies(c) : CreateContentInteraction(u, data)
    \/ \E u \in Users : \E c \in 1..(Len(contents) + 1) :
          \E rating \in Ratings :
             /\ c \in 1..Len(contents) /\ contents[c].average_rating # NoFloat
                  => FGeq(contents[c].average_rating, FInt(MinRating))
             /\ RateContent(u, c, rating)

SpecRatings == Init /\ [][NextRatings]_vars

\* Completions: two users report progress on a content.
NextCompletion ==
    \/ \E u \in Users : Len(contents) < MaxContents /\ CreateContent(u)
    \/ \E u \in Users : \E c \in 1..(Len(contents) + 1) :
          \E data \in ProgressBodies(c) : CreateContentInteraction(u, data)

SpecCompletion == Init /\ [][NextCompletion]_vars

\* The 'rate' interactions of a content that store a rating.
RatedRows(c) ==
    { i \in 1..Len(interactions) :
        /\ interactions[i].content_id = c
        /\ interactions[i].interaction_type = "rate"
        /\ interactions[i].rating # NoInt }

\* C8: the average_rating of every content is the arithmetic mean of the
\* ratings stored in its 'rate' interactions (and is unset when there are
\* none).
C8_AverageIsMeanOfRatings ==
    \A c \in 1..Len(contents) :
        IF RatedRows(c) = {}
        THEN contents[c].average_rating = NoFloat
        ELSE /\ contents[c].average_rating # NoFloat
             /\ contents[c].average_rating =
                  Frac(SumOver(RatedRows(c),
                               [ i \in 1..Len(interactions) |->
                                   interactions[i].rating ]),
                       Cardinality(RatedRows(c)))

\* C9: a rate call by a user who already has a 'rate' interaction for the
\* content leaves total_ratings as it was and sets average_rating to
\* (oldMean * count - oldValue + newValue) / count.
C9_RerateReplacesRating ==
    [][\A u \in Users : \A c \in 1..Len(contents) : \A rating \in Ratings :
          (RateContent(u, c, rating) /\ ExistingInteractions(u, c, "rate") # {})
            => LET old_rating ==
                       interactions[Min(ExistingInteractions(u, c, "rate"))].rating
               IN /\ contents'[c].total_ratings = contents[c].total_ratings
                  /\ contents[c].total_ratings > 0
                  /\ old_rating # NoInt
                  /\ contents'[c].average_rating =
                       EditedAverage(contents[c].average_rating,
                                     contents[c].total_ratings,
                                     old_rating, rating)]_vars

\* C10: a record-interaction call adds one to completion_count when it
\* brings a not yet completed interaction (new or existing) to a progress
\* of 100, and adds nothing otherwise.
C10_CompletionCountedOnce ==
    [][\A u \in Users : \A c \in 1..Len(contents) :
         \A data \in ProgressBodies(c) :
            CreateContentInteraction(u, data)
              => LET existing ==
                         ExistingInteractions(u, c, data.interaction_type)
                     first_time ==
                         /\ data.progress_percentage >= 100
                         /\ \A i \in existing : ~interactions[i].is_completed
                 IN contents'[c].completion_count
                      = contents[c].completion_count
                          + (IF first_time THEN 1 ELSE 0)]_vars

(***************************************************************************)
(* Interaction rows: views to the end and ratings of one content through   *)
(* both endpoints.                                                         *)
(***************************************************************************)
\* Bodies of the record-interaction request: a view to the end and a rating.
KeyedBodies(c) ==
    { [ content_id |-> c, interaction_type |-> "view",
        progress_percentage |-> 100, rating |-> NoInt ],
      [ content_id |-> c, interaction_type |-> "rate",
        progress_percentage |-> 0, rating |-> 5 ] }

NextInteractions ==
    \/ \E u \in Users : contents = <<>> /\ CreateContent(u)
    \/ \E u \in Users : \E c \in 1..(Len(contents) + 1) :
          \E data \in KeyedBodies(c) : CreateContentInteraction(u, data)
    \/ \E u \in Users : \E c \in 1..(Len(contents) + 1) :
          \E rating \in Ratings :
             /\ c \in 1..Len(contents) /\ contents[c].average_rating # NoFloat
                  => FGeq(contents[c].average_rating, FInt(MinRating))
             /\ RateContent(u, c, rating)

SpecInteractions == Init /\ [][NextInteractions]_vars

\* No two interaction rows have the same user, content and type.
UniqueInteractionKeys ==
    \A i, j \in 1..Len(interactions) :
        ( /\ interactions[i].user_id = interactions[j].user_id
          /\ interactions[i].content_id = interactions[j].content_id
          /\ interactions[i].interaction_type = interactions[j].interaction_type )
          => i = j

\* C11: after every record-interaction or rate call the interaction rows
\* have pairwise different (user_id, content_id, interaction_type), and a
\* call whose key already has a row creates no row.
C11_OneRowPerKey ==
    [][ /\ UniqueInteractionKeys'
        /\ \A u \in Users : \A c \in 1..Len(contents) :
              /\ \A data \in KeyedBodies(c) :
                    ( /\ resp'.op = "create_interaction" /\ resp'.user = u
                      /\ ExistingInteractions(u, c, data.interaction_type) # {}
                      /\ CreateContentInteraction(u, data) )
                      => Len(interactions') = Len(interactions)
              /\ \A rating \in Ratings :
                    ( /\ resp'.op = "rate_content" /\ resp'.user = u
                      /\ ExistingInteractions(u, c, "rate") # {}
                      /\ RateContent(u, c, rating) )
                      => Len(interactions') = Len(interactions) ]_vars

\* Both users hold a view and a rate row for a content, and one rate row,
\* created by record-interaction with rating 5, was re-rated to 3.
C11_Witness ==
    /\ Len(interactions) = 4
    /\ \E c \in 1..Len(contents) :
          /\ contents[c].total_ratings = 1
          /\ \A u \in Users :
                /\ ExistingInteractions(u, c, "view") # {}
                /\ \E i \in ExistingInteractions(u, c, "rate") :
                      interactions[i].rating = 3

(***************************************************************************)
(* Recommendations (api/recommendations.py).  Of a Recommendation row the  *)
(* model keeps the owner, what identifies the rule that made it, and the   *)
(* response lifecycle; texts, scores and targets are left out.             *)
(***************************************************************************)
MaxRecommendations == 2

\* An Optional[bool]: None, or a value.
NoBool == <<>>
Some(b) == <<b>>

\* timedelta(days=d), in seconds
Days(d) == d * 86400

NewRecommendation(u, recommendation_type, title, priority, category, days) ==
    [ user_id |-> u,
      recommendation_type |-> recommendation_type,
      title |-> title,
      priority |-> priority,
      category |-> category,
      status |-> "active",
      is_viewed |-> FALSE,
      is_accepted |-> NoBool,
      is_completed |-> FALSE,
      viewed_at |-> NoTime,
      responded_at |-> NoTime,
      completed_at |-> NoTime,
      expires_at |-> now + Days(days) ]

\* query.order_by(desc(t)).limit(n).all(): the n newest of S, rows of equal
\* time in either order.
RECURSIVE Newest(_, _, _)
Newest(S, n, t) ==
    IF Cardinality(S) <= n THEN {S}
    ELSE UNION { Newest(S \ {i}, n, t) :
                   i \in { j \in S : \A k \in S : t[j] <= t[k] } }

\* The user's sessions, completed assessments and interactions of the last
\* 30 days, by id.
RecentSessions(u) ==
    { i \in 1..Len(sessions) :
        sessions[i].user_id = u /\ sessions[i].start_time >= now - Days(30) }

RecentAssessments(u) ==
    { i \in 1..Len(assessments) :
        /\ assessments[i].user_id = u
        /\ assessments[i].created_at >= now - Days(30)
        /\ assessments[i].is_completed }

RecentInteractions(u) ==
    { i \in 1..Len(interactions) :
        /\ interactions[i].user_id = u
        /\ interactions[i].start_time >= now - Days(30) }

\* Content.average_rating >= 4.0, false for a content without ratings
RatedFour(content) ==
    content.average_rating # NoFloat /\ FGeq(content.average_rating, FInt(4))

\* 1. Study consistency: fewer than 10 recent sessions.
StudyRule(u, recent_sessions) ==
    IF Cardinality(recent_sessions) < 10
    THEN << NewRecommendation(u, "study_plan",
                <<"Build a Consistent Study Habit", "">>, "high", "habit", 7) >>
    ELSE << >>

\* The subjects of the recent assessments scored below 70, one entry per
\* assessment.
Struggling(recent_assessments) ==
    { i \in recent_assessments :
        ~FGeq(assessments[i].score_percentage, FInt(70)) }

\* max(set(struggling_subjects), key=struggling_subjects.count): a subject
\* of the highest count; among equal counts the set order decides.
MostStruggling(recent_assessments) ==
    LET rows == Struggling(recent_assessments)
        count(subject) ==
            Cardinality({ i \in rows : assessments[i].subject = subject })
        subjects == { assessments[i].subject : i \in rows }
    IN { x \in subjects : \A y \in subjects : count(x) >= count(y) }

\* 2. Review fundamentals: an easy, active content rated 4 or more in the
\* most struggling subject.
SubjectRule(u, recent_assessments, most_struggling) ==
    IF /\ Struggling(recent_assessments) # {}
       /\ \E c \in 1..Len(contents) :
             /\ contents[c].subject = most_struggling
             /\ contents[c].difficulty_level = "easy"
             /\ contents[c].is_active
             /\ RatedFour(contents[c])
    THEN << NewRecommendation(u, "content",
                <<"Review Fundamentals in ", most_struggling>>,
                "high", "subject", 14) >>
    ELSE << >>

\* max(recent_assessments, key=score_percentage): the first of the highest
\* score in the list, that is the newest one.
BestAssessments(recent_assessments) ==
    LET top == { i \in recent_assessments :
                   \A j \in recent_assessments :
                      FGeq(assessments[i].score_percentage,
                           assessments[j].score_percentage) }
    IN { i \in top :
           \A j \in top : assessments[i].created_at >= assessments[j].created_at }

\* 3. Challenge: the best recent score is 90 or more and there is a hard,
\* active content in that assessment's subject.
ChallengeRule(u, recent_assessments, best) ==
    IF /\ recent_assessments # {}
       /\ FGeq(assessments[best].score_percentage, FInt(90))
       /\ \E c \in 1..Len(contents) :
             /\ contents[c].subject = assessments[best].subject
             /\ contents[c].difficulty_level = "hard"
             /\ contents[c].is_active
    THEN << NewRecommendation(u, "content",
                <<"Challenge Yourself in ", assessments[best].subject>>,
                "medium", "skill", 21) >>
    ELSE << >>

\* sum([s.duration_minutes or 0 for s in recent_sessions])
TotalRecentStudyTime(recent_sessions) ==
    SumOver(recent_sessions,
            [ i \in 1..Len(sessions) |->
                IF sessions[i].duration_minutes = NoInt THEN 0
                ELSE sessions[i].duration_minutes ])

\* 4. Break: more than 600 recent minutes and a daily average above one and
\* a half daily goals (total / 30 > goal * 1.5).
WellnessRule(u, recent_sessions) ==
    LET total_recent_study_time == TotalRecentStudyTime(recent_sessions)
    IN IF /\ total_recent_study_time > 600
          /\ 2 * total_recent_study_time
               > 30 * 3 * users[u].daily_study_goal_minutes
       THEN << NewRecommendation(u, "break",
                   <<"Take a Well-Deserved Break", "">>,
                   "medium", "wellness", 3) >>
       ELSE << >>

\* The content types of the recent interactions.
InteractionTypes(recent_interactions) ==
    { contents[interactions[i].content_id].content_type :
        i \in { j \in recent_interactions :
                  interactions[j].content_id \in 1..Len(contents) } }

\* 5. Variety: only text content was used and there is an active video
\* rated 4 or more.
VarietyRule(u, recent_interactions) ==
    IF /\ Cardinality(InteractionTypes(recent_interactions)) = 1
       /\ InteractionTypes(recent_interactions) \subseteq {"article", "document"}
       /\ \E c \in 1..Len(contents) :
             /\ contents[c].content_type = "video"
             /\ contents[c].is_active
             /\ RatedFour(contents[c])
    THEN << NewRecommendation(u, "content",
                <<"Try Video-Based Learning", "">>,
                "low", "learning_style", 30) >>
    ELSE << >>

\* Rules tried in order until one makes a recommendation.
GeneratedRows_FirstOnly(r1, r2, r3, r4, r5) ==
    IF r1 # <<>> THEN r1 ELSE IF r2 # <<>> THEN r2 ELSE IF r3 # <<>> THEN r3
    ELSE IF r4 # <<>> THEN r4 ELSE r5

\* The rows db.add()ed by the five rules, in order.
GeneratedRows(r1, r2, r3, r4, r5) == r1 \o r2 \o r3 \o r4 \o r5

\* POST /recommendations/generate
GenerateRecommendations(u) ==
    \E recent_sessions \in
          Newest(RecentSessions(u), 20,
                 [ i \in 1..Len(sessions) |-> sessions[i].start_time ]) :
    \E recent_assessments \in
          Newest(RecentAssessments(u), 10,
                 [ i \in 1..Len(assessments) |-> assessments[i].created_at ]) :
    \E recent_interactions \in
          Newest(RecentInteractions(u), 20,
                 [ i \in 1..Len(interactions) |-> interactions[i].start_time ]) :
    \E most_struggling \in
          IF Struggling(recent_assessments) = {} THEN {""}
          ELSE MostStruggling(recent_assessments) :
    \E best \in
          IF recent_assessments = {} THEN {0}
          ELSE BestAssessments(recent_assessments) :
       LET rows == GeneratedRows(
                      StudyRule(u, recent_sessions),
                      SubjectRule(u, recent_assessments, most_struggling),
                      ChallengeRule(u, recent_assessments, best),
                      WellnessRule(u, recent_sessions),
                      VarietyRule(u, recent_interactions))
       IN /\ recommendations' = recommendations \o rows
          /\ resp' = Response("generate_recommendations", u, 200, Len(rows))
          /\ UNCHANGED <<pending, now, users, sessions, assessments, questions,
                         answers, contents, interactions, progress,
                         achievements>>

\* A lookup by id alone, for comparison with the lookup of the handlers.
FindRecommendation_AnyUser(u, r) == r \in 1..Len(recommendations)

\* db.query(Recommendation).filter(id == r, user_id == u).first()
FindRecommendation(u, r) ==
    r \in 1..Len(recommendations) /\ recommendations[r].user_id = u

\* POST /recommendations/{r}/respond
RespondToRecommendation(u, r, is_accepted) ==
    /\ UNCHANGED <<pending, now, users, sessions, assessments, questions, answers,
                   contents, interactions, progress, achievements>>
    /\ IF ~FindRecommendation(u, r)
       THEN /\ resp' = Response("respond_to_recommendation", u, 404, 0)
            /\ UNCHANGED recommendations
       ELSE /\ recommendations' = [recommendations EXCEPT
                 ![r].is_accepted = Some(is_accepted),
                 ![r].responded_at = now,
                 ![r].status = IF is_accepted THEN "accepted" ELSE "declined"]
            /\ resp' = Response("respond_to_recommendation", u, 200, r)

\* POST /recommendations/{r}/complete; `not is_accepted` holds for None and
\* for False.
CompleteRecommendation(u, r) ==
    /\ UNCHANGED <<pending, now, users, sessions, assessments, questions, answers,
                   contents, interactions, progress, achievements>>
    /\ IF ~FindRecommendation(u, r)
       THEN /\ resp' = Response("complete_recommendation", u, 404, 0)
            /\ UNCHANGED recommendations
       ELSE IF recommendations[r].is_accepted # Some(TRUE)
       THEN /\ resp' = Response("complete_recommendation", u, 400, 0)
            /\ UNCHANGED recommendations
       ELSE /\ recommendations' = [recommendations EXCEPT
                 ![r].is_completed = TRUE,
                 ![r].completed_at = now,
                 ![r].status = "completed"]
            /\ resp' = Response("complete_recommendation", u, 200, r)

\* DELETE /recommendations/{r}
DismissRecommendation(u, r) ==
    /\ UNCHANGED <<pending, now, users, sessions, assessments, questions, answers,
                   contents, interactions, progress, achievements>>
    /\ IF ~FindRecommendation(u, r)
       THEN /\ resp' = Response("dismiss_recommendation", u, 404, 0)
            /\ UNCHANGED recommendations
       ELSE /\ recommendations' = [recommendations EXCEPT
                 ![r].status = "dismissed"]
            /\ resp' = Response("dismiss_recommendation", u, 200, 0)

\* The response lifecycle of the recommendations two new users generate.
NextRecommendations ==
    \/ \E u \in Users :
          /\ Len(recommendations) < MaxRecommendations
          /\ GenerateRecommendations(u)
    \/ \E u \in Users : \E r \in 1..(Len(recommendations) + 1) :
          \E is_accepted \in BOOLEAN : RespondToRecommendation(u, r, is_accepted)
    \/ \E u \in Users : \E r \in 1..(Len(recommendations) + 1) :
          CompleteRecommendation(u, r)
    \/ \E u \in Users : \E r \in 1..(Len(recommendations) + 1) :
          DismissRecommendation(u, r)

SpecRecommendations == Init /\ [][NextRecommendations]_vars

\* C12: a complete call on the caller's recommendation succeeds exactly
\* when its status is accepted; in every other status it answers 400 and
\* leaves is_completed, completed_at and status as they were.
C12_CompleteRequiresAccepted ==
    [][\A u \in Users : \A r \in 1..Len(recommendations) :
          ( /\ recommendations[r].user_id = u
            /\ resp'.op = "complete_recommendation" /\ resp'.user = u
            /\ CompleteRecommendation(u, r) ) =>
              IF recommendations[r].status = "accepted"
              THEN /\ resp'.code = 200
                   /\ recommendations'[r].status = "completed"
                   /\ recommendations'[r].is_completed
              ELSE /\ resp'.code = 400
                   /\ recommendations'[r].is_completed
                        = recommendations[r].is_completed
                   /\ recommendations'[r].completed_at
                        = recommendations[r].completed_at
                   /\ recommendations'[r].status
                        = recommendations[r].status]_vars

\* C13: a respond or complete call changes the status of a recommendation
\* only from pending/active to accepted or declined, or from accepted or
\* declined to completed, and changes neither status nor is_accepted nor
\* is_completed of a completed recommendation.
C13_LifecycleOrder ==
    [][\A r \in 1..Len(recommendations) :
          resp'.op \in {"respond_to_recommendation", "complete_recommendation"}
            => LET old == recommendations[r]
                   new == recommendations'[r]
               IN /\ old.status # new.status =>
                       \/ /\ old.status \in {"pending", "active"}
                          /\ new.status \in {"accepted", "declined"}
                       \/ /\ old.status \in {"accepted", "declined"}
                          /\ new.status = "completed"
                  /\ old.status = "completed" =>
                       /\ new.status = old.status
                       /\ new.is_accepted = old.is_accepted
                       /\ new.is_completed = old.is_completed]_vars

(***************************************************************************)
(* Reads by id, and the ownership of sessions, assessments and             *)
(* recommendations.                                                        *)
(***************************************************************************)
AllTables ==
    <<users, sessions, assessments, questions, answers, contents,
      interactions, progress, achievements, recommendations>>

\* GET /learning/sessions/{s}
GetLearningSession(u, s) ==
    /\ resp' = IF FindSession(u, s)
               THEN Response("get_session", u, 200, s)
               ELSE Response("get_session", u, 404, 0)
    /\ UNCHANGED <<pending, now, AllTables>>

\* GET /assessments/{a}
GetAssessment(u, a) ==
    /\ resp' = IF FindAssessment(u, a)
               THEN Response("get_assessment", u, 200, a)
               ELSE Response("get_assessment", u, 404, 0)
    /\ UNCHANGED <<pending, now, AllTables>>

\* GET /assessments/{a}/questions: the number of questions returned.
GetAssessmentQuestions(u, a) ==
    /\ resp' = IF FindAssessment(u, a)
               THEN Response("get_questions", u, 200,
                             Cardinality(question_dict(a)))
               ELSE Response("get_questions", u, 404, 0)
    /\ UNCHANGED <<pending, now, AllTables>>

\* GET /assessments/{a}/results: the correct answers of the summary.
GetAssessmentResults(u, a) ==
    /\ resp' = IF ~FindAssessment(u, a)
               THEN Response("get_results", u, 404, 0)
               ELSE IF ~assessments[a].is_completed
               THEN Response("get_results", u, 400, 0)
               ELSE Response("get_results", u, 200,
                             assessments[a].correct_answers)
    /\ UNCHANGED <<pending, now, AllTables>>

\* A read that stamps viewed_at every time.
GetRecommendation_Restamped(u, r) ==
    /\ UNCHANGED <<pending, now, users, sessions, assessments, questions, answers,
                   contents, interactions, progress, achievements>>
    /\ IF ~FindRecommendation(u, r)
       THEN /\ resp' = Response("get_recommendation", u, 404, 0)
            /\ UNCHANGED recommendations
       ELSE /\ recommendations' =
                 [recommendations EXCEPT ![r].is_viewed = TRUE,
                                         ![r].viewed_at = now]
            /\ resp' = Response("get_recommendation", u, 200, r)

\* GET /recommendations/{r}: the first read marks the row as viewed.
GetRecommendation(u, r) ==
    /\ UNCHANGED <<pending, now, users, sessions, assessments, questions, answers,
                   contents, interactions, progress, achievements>>
    /\ IF ~FindRecommendation(u, r)
       THEN /\ resp' = Response("get_recommendation", u, 404, 0)
            /\ UNCHANGED recommendations
       ELSE /\ recommendations' =
                 IF ~recommendations[r].is_viewed
                 THEN [recommendations EXCEPT ![r].is_viewed = TRUE,
                                              ![r].viewed_at = now]
                 ELSE recommendations
            /\ resp' = Response("get_recommendation", u, 200, r)

\* One session, one assessment and one recommendation, each owned by
\* either user and named by both users, by its id and by an id not in use.
AccessUpdates == { [end_time |-> UnsetTime, completion_percentage |-> 50] }

AccessSubmissions(a) ==
    LET ids == question_dict(a)
    IN { << A(IF ids = {} THEN 0 ELSE Min(ids), <<"a">>, NoneStr) >> }

NextAccess ==
    \/ \E u \in Users : sessions = <<>> /\ CreateSession(u)
    \/ \E u \in Users : \E s \in 1..(Len(sessions) + 1) :
          \/ GetLearningSession(u, s)
          \/ \E upd \in AccessUpdates : UpdateSession(u, s, upd)
          \/ CompleteSession(u, s)
    \/ \E u \in Users : assessments = <<>> /\ CreateAssessment(u, PlainQuiz)
    \/ \E u \in Users : \E a \in 1..(Len(assessments) + 1) :
          \/ GetAssessment(u, a)
          \/ GetAssessmentQuestions(u, a)
          \/ StartAssessment(u, a)
          \/ \E submitted \in AccessSubmissions(a) :
                SubmitAssessment(u, a, submitted)
          \/ GetAssessmentResults(u, a)
    \/ \E u \in Users : recommendations = <<>> /\ GenerateRecommendations(u)
    \/ \E u \in Users : \E r \in 1..(Len(recommendations) + 1) :
          \/ GetRecommendation(u, r)
          \/ \E is_accepted \in BOOLEAN :
                RespondToRecommendation(u, r, is_accepted)
          \/ CompleteRecommendation(u, r)
          \/ DismissRecommendation(u, r)

SpecAccess == Init /\ [][NextAccess]_vars

\* The response to a request that names no record of the caller.
NotFound == resp'.code = 404 /\ resp'.n = 0 /\ UNCHANGED AllTables

\* C14: a by-id request of a user on a session, assessment or
\* recommendation that is owned by another user or does not exist is
\* answered 404, with the same response in both cases, and changes no row.
C14_ForeignAsAbsent ==
    [][\/ NotFound
       \/ \A u \in Users :
             /\ ( /\ resp'.user = u
                  /\ resp'.op \in {"get_session", "update_session",
                                   "complete_session"} ) =>
                  \A s \in 1..(Len(sessions) + 1) :
                     ~( /\ ~(s \in 1..Len(sessions) /\ sessions[s].user_id = u)
                        /\ \/ GetLearningSession(u, s)
                           \/ \E upd \in AccessUpdates :
                                 UpdateSession(u, s, upd)
                           \/ CompleteSession(u, s) )
             /\ ( /\ resp'.user = u
                  /\ resp'.op \in {"get_assessment", "get_questions",
                                   "start_assessment", "submit_assessment",
                                   "get_results"} ) =>
                  \A a \in 1..(Len(assessments) + 1) :
                     ~( /\ ~( /\ a \in 1..Len(assessments)
                             /\ assessments[a].user_id = u )
                        /\ \/ GetAssessment(u, a)
                           \/ GetAssessmentQuestions(u, a)
                           \/ StartAssessment(u, a)
                           \/ \E submitted \in AccessSubmissions(a) :
                                 SubmitAssessment(u, a, submitted)
                           \/ GetAssessmentResults(u, a) )
             /\ ( /\ resp'.user = u
                  /\ resp'.op \in {"get_recommendation",
                                   "respond_to_recommendation",
                                   "complete_recommendation",
                                   "dismiss_recommendation"} ) =>
                  \A r \in 1..(Len(recommendations) + 1) :
                     ~( /\ ~( /\ r \in 1..Len(recommendations)
                             /\ recommendations[r].user_id = u )
                        /\ \/ GetRecommendation(u, r)
                           \/ \E is_accepted \in BOOLEAN :
                                 RespondToRecommendation(u, r, is_accepted)
                           \/ CompleteRecommendation(u, r)
                           \/ DismissRecommendation(u, r) )]_vars

\* A user was answered 404 on a submit while the other user's assessment is
\* in progress, and the other user's session and recommendation exist too.
C14_Witness ==
    /\ resp.op = "submit_assessment" /\ resp.code = 404
    /\ \E a \in 1..Len(assessments) :
          assessments[a].user_id # resp.user /\ assessments[a].status = "in_progress"
    /\ \E s \in 1..Len(sessions) : sessions[s].user_id # resp.user
    /\ \E r \in 1..Len(recommendations) : recommendations[r].user_id # resp.user

(***************************************************************************)
(* Isolation of users: both users work through the mutating handlers of    *)
(* every area.  A user works in one area at a time: the user's rows are    *)
(* all in one of the four tables, while the other user's rows are in any   *)
(* of them.                                                                *)
(***************************************************************************)
Holds(u, table) == \E i \in 1..Len(table) : table[i].user_id = u

HeldTables(u) ==
    { t \in {"sessions", "assessments", "interactions", "recommendations"} :
        \/ t = "sessions" /\ Holds(u, sessions)
        \/ t = "assessments" /\ Holds(u, assessments)
        \/ t = "interactions" /\ Holds(u, interactions)
        \/ t = "recommendations" /\ Holds(u, recommendations) }

MayOpen(u, t) == HeldTables(u) = {}

\* Both questions of the quiz answered right.
FrameSubmissions(a) ==
    LET ids == question_dict(a)
    IN { << A(IF ids = {} THEN 0 ELSE Min(ids), <<"a">>, NoneStr),
            A(IF ids = {} THEN 0 ELSE Max(ids), <<"a">>, NoneStr) >> }

NextFrame ==
    \/ \E u \in Users : contents = <<>> /\ CreateContent(u)
    \/ \E u \in Users : MayOpen(u, "sessions") /\ CreateSession(u)
    \/ \E u \in Users : \E s \in 1..Len(sessions) :
          \/ \E upd \in AccessUpdates : UpdateSession(u, s, upd)
          \/ CompleteSession(u, s)
    \/ \E u \in Users :
          MayOpen(u, "assessments") /\ CreateAssessment(u, PlainQuiz)
    \/ \E u \in Users : \E a \in 1..Len(assessments) :
          \/ StartAssessment(u, a)
          \/ \E submitted \in FrameSubmissions(a) :
                SubmitAssessment(u, a, submitted)
    \/ \E u \in Users : \E c \in 1..Len(contents) :
          /\ "interactions" \in HeldTables(u) \/ MayOpen(u, "interactions")
          /\ \/ \E data \in KeyedBodies(c) : CreateContentInteraction(u, data)
             \/ RateContent(u, c, 5)
    \/ \E u \in Users :
          MayOpen(u, "recommendations") /\ GenerateRecommendations(u)
    \/ \E u \in Users : \E r \in 1..Len(recommendations) :
          \/ \E is_accepted \in BOOLEAN :
                RespondToRecommendation(u, r, is_accepted)
          \/ CompleteRecommendation(u, r)
          \/ DismissRecommendation(u, r)
    \/ \E u \in Users : CheckAchievements(u)

SpecFrame == Init /\ [][NextFrame]_vars

\* The rows of user b in a table are the same rows at the same ids after a
\* step, and no row of b is added.
Kept(old, new, b) ==
    /\ Len(new) >= Len(old)
    /\ \A i \in 1..Len(new) :
          (i <= Len(old) /\ old[i].user_id = b) \/ new[i].user_id = b =>
             i <= Len(old) /\ new[i] = old[i]

\* The Achievement rows of user b, with their copies.
AchievementsOf(bag, b) ==
    [ row \in { x \in BagToSet(bag) : x.user_id = b } |-> CopiesIn(row, bag) ]

MutatingOps ==
    { "create_session", "update_session", "complete_session",
      "create_assessment", "start_assessment", "submit_assessment",
      "create_interaction", "rate_content", "generate_recommendations",
      "respond_to_recommendation", "complete_recommendation",
      "dismiss_recommendation", "check_achievements" }

\* C15: a mutating request of one user leaves the LearningSession,
\* Assessment, Answer, ContentInteraction, Achievement and Recommendation
\* rows of every other user, and the other user's User row with its
\* aggregates, unchanged.
C15_OtherUserUntouched ==
    [][resp'.op \in MutatingOps =>
          \A b \in Users \ {resp'.user} :
             /\ users'[b] = users[b]
             /\ Kept(sessions, sessions', b)
             /\ Kept(assessments, assessments', b)
             /\ Kept(answers, answers', b)
             /\ Kept(interactions, interactions', b)
             /\ Kept(recommendations, recommendations', b)
             /\ AchievementsOf(achievements', b) = AchievementsOf(achievements, b)]_vars

\* A user had a request answered 200 that changed a row of that user while
\* the other user holds a row of another table, an achievement and
\* non-zero aggregates.
C15_Witness ==
    /\ resp.op \in {"complete_session", "respond_to_recommendation",
                    "rate_content"}
    /\ resp.code = 200
    /\ \E b \in Users \ {resp.user} :
          /\ HeldTables(b) # {}
          /\ HeldTables(b) # HeldTables(resp.user)
          /\ users[b].total_assessments_completed > 0
          /\ \E row \in BagToSet(achievements) : row.user_id = b

(***************************************************************************)
(* Profile, study plan and analytics overview (api/users.py,               *)
(* api/learning.py, api/analytics.py).  Of the study plan the response    *)
(* keeps the whole percents of daily_goal_progress, of the overview the    *)
(* improvement_rate in hundredths; an exception that no handler catches    *)
(* is a 500.                                                               *)
(***************************************************************************)
\* round(x, 2) of a float: the nearest multiple of 1/100, a tie towards
\* the even one.
Round2(x) ==
    LET num == x.n * 100
        q == num \div x.d
        twice == 2 * (num - q * x.d)
        r == IF twice > x.d THEN q + 1
             ELSE IF twice < x.d THEN q
             ELSE IF q % 2 = 0 THEN q ELSE q + 1
    IN Frac(r, 100)

\* A number of two decimals in hundredths.
Hundredths(x) == (x.n * 100) \div x.d

\* datetime.date(): the day a time falls on.
Date(t) == t \div 86400

\* PUT /users/profile, the field daily_study_goal_minutes of the body
\* (NoInt: not provided); the other fields are not read by the model.
UpdateUserProfile(u, daily_study_goal_minutes) ==
    /\ users' = [users EXCEPT
          ![u].daily_study_goal_minutes =
              IF daily_study_goal_minutes # NoInt
              THEN daily_study_goal_minutes ELSE @]
    /\ resp' = Response("update_profile", u, 200, users'[u].daily_study_goal_minutes)
    /\ UNCHANGED <<pending, now, sessions, assessments, questions, answers, contents,
                   interactions, progress, achievements, recommendations>>

\* sum([s.duration_minutes or 0 for s in today_sessions])
TodayMinutes(u) ==
    LET recent_sessions == CHOOSE S \in Newest(RecentSessions(u), 50,
                               [ i \in 1..Len(sessions) |-> sessions[i].start_time ]) : TRUE
        today_sessions ==
            { i \in recent_sessions : Date(sessions[i].start_time) = Date(now) }
    IN SumOver(today_sessions,
               [ i \in 1..Len(sessions) |->
                   IF sessions[i].duration_minutes = NoInt THEN 0
                   ELSE sessions[i].duration_minutes ])

\* GET /learning/study-plan: daily_goal_progress =
\* min(today_minutes / daily_study_goal_minutes * 100, 100); the division
\* raises ZeroDivisionError for a goal of 0.
GetStudyPlan(u) ==
    LET goal == users[u].daily_study_goal_minutes
        progress_now == FMul(Frac(TodayMinutes(u), goal), FInt(100))
        daily_goal_progress ==
            IF FGeq(progress_now, FInt(100)) THEN FInt(100) ELSE progress_now
    IN /\ resp' = IF goal = 0
                  THEN Response("get_study_plan", u, 500, 0)
                  ELSE Response("get_study_plan", u, 200,
                                daily_goal_progress.n \div daily_goal_progress.d)
       /\ UNCHANGED <<pending, now, AllTables>>

\* The rows of a query without order_by, in an order the database chooses.
AnyOrder(S) ==
    { seq \in [1..Cardinality(S) -> S] : \A x \in S : \E i \in DOMAIN seq : seq[i] = x }

\* sum([a.score_percentage for a in rows]) / len(rows)
RECURSIVE FSumSeq(_)
FSumSeq(seq) == IF seq = <<>> THEN FInt(0) ELSE FAdd(Head(seq), FSumSeq(Tail(seq)))

MeanOf(rows) ==
    FDiv(FSumSeq([ i \in 1..Len(rows) |-> assessments[rows[i]].score_percentage ]),
         FInt(Len(rows)))

\* The improvement rate of a list of completed assessments.
ImprovementRate(rows) ==
    IF Len(rows) >= 2
    THEN LET first_half == SubSeq(rows, 1, Len(rows) \div 2)
             second_half == SubSeq(rows, Len(rows) \div 2 + 1, Len(rows))
             first_avg == MeanOf(first_half)
             second_avg == MeanOf(second_half)
         IN IF first_avg.n > 0
            THEN FMul(FDiv(FSub(second_avg, first_avg), first_avg), FInt(100))
            ELSE FInt(0)
    ELSE FInt(0)

\* The completed assessments of the user created in the window.
WindowAssessments(u, days) ==
    { i \in 1..Len(assessments) :
        /\ assessments[i].user_id = u
        /\ assessments[i].created_at >= now - Days(days)
        /\ assessments[i].is_completed }

\* GET /analytics/overview?days=
GetAnalyticsOverview(u, days) ==
    LET window_sessions ==
            { i \in 1..Len(sessions) :
                sessions[i].user_id = u /\ sessions[i].start_time >= now - Days(days) }
        total_study_time ==
            SumOver(window_sessions,
                    [ i \in 1..Len(sessions) |->
                        IF sessions[i].duration_minutes = NoInt THEN 0
                        ELSE sessions[i].duration_minutes ])
    IN /\ \E rows \in AnyOrder(WindowAssessments(u, days)) :
            resp' = Response("get_analytics_overview", u, 200, Hundredths(
               [ total_study_time_minutes |-> total_study_time,
                 total_sessions |-> Cardinality(window_sessions),
                 total_assessments |-> Len(rows),
                 average_score |->
                     Round2(IF rows # <<>> THEN MeanOf(rows) ELSE FInt(0)),
                 improvement_rate |-> Round2(ImprovementRate(rows)),
                 daily_study_time_minutes |-> Round2(Frac(total_study_time, days)),
                 daily_sessions |-> Round2(Frac(Cardinality(window_sessions), days)),
                 daily_assessments |-> Round2(Frac(Len(rows), days))
               ].improvement_rate))
       /\ UNCHANGED <<pending, now, AllTables>>

\* The goals a profile update sets: none, zero and half an hour.
Goals == {NoInt, 0, 30}

\* A user studies in one session, sets a daily goal and reads the study
\* plan and the overview of the last 30 days.
NextStudyPlan ==
    \/ Tick(2700)
    \/ \E u \in Users : sessions = <<>> /\ CreateSession(u)
    \/ \E u \in Users : \E s \in 1..Len(sessions) :
          /\ users[u].total_study_time_minutes < MaxStudyMinutes
          /\ CompleteSession(u, s)
    \/ \E u \in Users : \E goal \in Goals : UpdateUserProfile(u, goal)
    \/ \E u \in Users : GetStudyPlan(u)
    \/ \E u \in Users : GetAnalyticsOverview(u, 30)

SpecStudyPlan == Init /\ [][NextStudyPlan]_vars

\* C16: no average, rate or percentage of a handler divides by zero: the
\* study plan and the overview are answered 200 in every reachable state,
\* also with no sessions, no assessments and a daily goal updated to 0.
C16_NoDivisionByZero ==
    resp.op \in {"get_study_plan", "get_analytics_overview"} => resp.code = 200

(***************************************************************************)
(* The improvement rate of the overview: a quiz of ten points whose        *)
(* submissions answer the first question wrong (0), the first question     *)
(* right and the others wrong (60), and only the last one wrong (90).      *)
(***************************************************************************)
TrendQuiz == << Q(<<"a">>, 6), Q(<<"a">>, 3), Q(<<"a">>, 1) >>

TrendSubmissions(a) ==
    LET ids == question_dict(a)
        q1 == IF ids = {} THEN 0 ELSE Min(ids)
    IN { << A(q1, <<"b">>, NoneStr) >>,
         << A(q1, <<"a">>, NoneStr), A(q1 + 1, <<"b">>, NoneStr),
            A(q1 + 2, <<"b">>, NoneStr) >>,
         << A(q1, <<"a">>, NoneStr), A(q1 + 1, <<"a">>, NoneStr),
            A(q1 + 2, <<"b">>, NoneStr) >> }

NextAnalytics ==
    \/ Tick(2700)
    \/ \E u \in Users :
          Len(assessments) < MaxAssessments /\ CreateAssessment(u, TrendQuiz)
    \/ \E u \in Users : \E a \in 1..Len(assessments) : StartAssessment(u, a)
    \/ \E u \in Users : \E a \in 1..Len(assessments) :
          \E submitted \in TrendSubmissions(a) : SubmitAssessment(u, a, submitted)
    \/ \E u \in Users : GetAnalyticsOverview(u, 30)

SpecAnalytics == Init /\ [][NextAnalytics]_vars

\* The orders of the completed assessments of the window by creation time,
\* rows of equal time in either order.
TimeOrdered(S) ==
    { rows \in AnyOrder(S) :
        \A i, j \in DOMAIN rows :
           i < j => assessments[rows[i]].created_at <= assessments[rows[j]].created_at }

\* C17: the overview improvement rate is computed from the time-ordered
\* list of the user's completed assessments in the window, split at
\* floor(n/2): (secondHalfMean - firstHalfMean) / firstHalfMean * 100, and
\* 0 when n < 2 or firstHalfMean is 0; the response carries it with two
\* decimals.
C17_ImprovementOfTimeOrdered ==
    [][\A u \in Users :
          ( /\ resp'.op = "get_analytics_overview"
            /\ resp'.user = u
            /\ GetAnalyticsOverview(u, 30) ) =>
               \E rows \in TimeOrdered(WindowAssessments(u, 30)) :
                  Frac(resp'.n, 100) = Round2(ImprovementRate(rows))]_vars

(***************************************************************************)
(* The assessment lifecycle over time: each user creates one assessment,   *)
(* both users start and submit it, and the clock advances once.            *)
(***************************************************************************)
NextLifecycle ==
    \/ now = 0 /\ Tick(2700)
    \/ \E u \in Users :
          /\ \A a \in 1..Len(assessments) : assessments[a].user_id # u
          /\ CreateAssessment(u, PlainQuiz)
    \/ \E u \in Users : \E a \in 1..(Len(assessments) + 1) : StartAssessment(u, a)
    \/ \E u \in Users : \E a \in 1..(Len(assessments) + 1) :
          \E submitted \in PlainSubmissions(a) : SubmitAssessment(u, a, submitted)

SpecLifecycle == Init /\ [][NextLifecycle]_vars

\* C28: an assessment has is_completed exactly when its status is
\* completed, and once it is completed no start or submit call changes its
\* status, score_percentage, correct_answers or end_time.
C28_CompletedAbsorbing ==
    [][\A a \in 1..Len(assessments) :
          LET old == assessments[a]
              new == assessments'[a]
          IN /\ new.is_completed <=> new.status = "completed"
             /\ old.status = "completed" =>
                   /\ new.status = old.status
                   /\ new.is_completed
                   /\ new.score_percentage = old.score_percentage
                   /\ new.correct_answers = old.correct_answers
                   /\ new.end_time = old.end_time]_vars

\* A start or a submit was refused on an assessment that was completed at
\* an earlier time.
C28_Witness ==
    /\ resp.op \in {"start_assessment", "submit_assessment"}
    /\ resp.code = 400
    /\ \E a \in 1..Len(assessments) :
          /\ assessments[a].user_id = resp.user
          /\ assessments[a].status = "completed"
          /\ assessments[a].end_time < now
    /\ \A a \in 1..Len(assessments) :
          assessments[a].user_id = resp.user => assessments[a].status = "completed"

\* The assessments of a user whose status is completed.
CompletedAssessments(u) ==
    { a \in 1..Len(assessments) :
        assessments[a].user_id = u /\ assessments[a].status = "completed" }

\* C29: total_assessments_completed of a user is the number of the user's
\* assessments whose status is completed.
C29_CountsCompleted ==
    \A u \in Users :
        users[u].total_assessments_completed = Cardinality(CompletedAssessments(u))

\* A second submit of a completed assessment was refused, and its owner
\* still counts one completed assessment.
C29_Witness ==
    /\ resp.op = "submit_assessment"
    /\ resp.code = 400
    /\ Cardinality(CompletedAssessments(resp.user)) = 1
    /\ users[resp.user].total_assessments_completed = 1

(***************************************************************************)
(* The generator of recommendations on a prepared database.  User 2 fills  *)
(* the library and rates it; user 1 then studies, takes assessments and    *)
(* views an article, one area after the other; either user asks for        *)
(* recommendations at any point.                                           *)
(***************************************************************************)
\* len(recent_sessions) < 10
LowActivity == 10

\* The library: an easy article, a hard article and a video, created in
\* this order, each one or not.
Library ==
    << [content_type |-> "article", difficulty_level |-> "easy"],
       [content_type |-> "article", difficulty_level |-> "hard"],
       [content_type |-> "video", difficulty_level |-> "medium"] >>

Shelf(content) ==
    CHOOSE k \in 1..Len(Library) :
       /\ Library[k].content_type = content.content_type
       /\ Library[k].difficulty_level = content.difficulty_level

\* Scores of 60 and 90 on the ten-point quiz.
GeneratorSubmissions(a) ==
    LET ids == question_dict(a)
        q1 == IF ids = {} THEN 0 ELSE Min(ids)
    IN { << A(q1, <<"a">>, NoneStr), A(q1 + 1, <<"b">>, NoneStr),
            A(q1 + 2, <<"b">>, NoneStr) >>,
         << A(q1, <<"a">>, NoneStr), A(q1 + 1, <<"a">>, NoneStr),
            A(q1 + 2, <<"b">>, NoneStr) >> }

SessionsSettled ==
    \/ \A s \in 1..Len(sessions) : sessions[s].is_completed
    \/ now = 0 /\ \A s \in 1..Len(sessions) : ~sessions[s].is_completed

AssessmentsSettled ==
    \A a \in 1..Len(assessments) : assessments[a].is_completed

NextGenerate ==
    \/ \E k \in 1..Len(Library) :
          /\ sessions = <<>> /\ assessments = <<>> /\ interactions = <<>>
          /\ users[1].daily_study_goal_minutes = NewUser.daily_study_goal_minutes
          /\ recommendations = <<>>
          /\ \A c \in 1..Len(contents) : Shelf(contents[c]) < k
          /\ CreateContentOf(2, Library[k].content_type,
                             Library[k].difficulty_level)
    \/ \E c \in 1..Len(contents) :
          /\ sessions = <<>> /\ assessments = <<>>
          /\ users[1].daily_study_goal_minutes = NewUser.daily_study_goal_minutes
          /\ recommendations = <<>>
          /\ contents[c].difficulty_level # "hard"
          /\ \A i \in 1..Len(interactions) : interactions[i].content_id < c
          /\ RateContent(2, c, 5)
    \/ /\ sessions = <<>> /\ recommendations = <<>>
       /\ users[1].daily_study_goal_minutes = NewUser.daily_study_goal_minutes
       /\ UpdateUserProfile(1, 10)
    \/ /\ now = 0 /\ assessments = <<>> /\ recommendations = <<>>
       /\ Len(sessions) < LowActivity
       /\ CreateSession(1)
    \/ /\ sessions # <<>> /\ assessments = <<>> /\ recommendations = <<>>
       /\ \A s \in 1..Len(sessions) : ~sessions[s].is_completed
       /\ Tick(2700)
    \/ \E s \in 1..Len(sessions) :
          /\ now = 2700 * MaxNow /\ assessments = <<>> /\ recommendations = <<>>
          /\ ~sessions[s].is_completed
          /\ \A t \in 1..(s - 1) : sessions[t].is_completed
          /\ CompleteSession(1, s)
    \/ /\ SessionsSettled /\ AssessmentsSettled /\ recommendations = <<>>
       /\ \A i \in 1..Len(interactions) : interactions[i].user_id # 1
       /\ Len(assessments) < MaxAssessments
       /\ CreateAssessment(1, TrendQuiz)
    \/ \E a \in 1..Len(assessments) :
          /\ recommendations = <<>>
          /\ \/ assessments[a].status = "not_started" /\ StartAssessment(1, a)
             \/ /\ assessments[a].status = "in_progress"
                /\ \E submitted \in GeneratorSubmissions(a) :
                      SubmitAssessment(1, a, submitted)
    \/ \E c \in 1..Len(contents) :
          /\ SessionsSettled /\ AssessmentsSettled /\ recommendations = <<>>
          /\ contents[c].content_type = "article"
          /\ \A i \in 1..Len(interactions) : interactions[i].user_id # 1
          /\ CreateContentInteraction(1,
                [ content_id |-> c, interaction_type |-> "view",
                  progress_percentage |-> 50, rating |-> NoInt ])
    \/ \E u \in Users : recommendations = <<>> /\ GenerateRecommendations(u)

SpecGenerate == Init /\ [][NextGenerate]_vars

\* The rows of a category among the rows from position n + 1 on.
Inserted(rows, n, category) ==
    { i \in (n + 1)..Len(rows) : rows[i].category = category }

\* C18: one call of generate_recommendations decides each of the five
\* rules on its own condition, whatever the other rules did: the row of a
\* rule is inserted exactly when that rule's condition holds, at most once;
\* between 0 and 5 rows are inserted, and recommendations_created is their
\* number.
C18_RulesIndependent ==
    [][\A u \in Users :
          ( /\ resp'.op = "generate_recommendations"
            /\ resp'.user = u
            /\ GenerateRecommendations(u) ) =>
          LET n == Len(recommendations)
              added == Len(recommendations') - n
              made(category) == Inserted(recommendations', n, category)
              recent_sessions == RecentSessions(u)
              recent_assessments == RecentAssessments(u)
          IN /\ added \in 0..5
             /\ resp'.n = added
             /\ \A i \in 1..n : recommendations'[i] = recommendations[i]
             /\ \A i \in (n + 1)..Len(recommendations') :
                   /\ recommendations'[i].user_id = u
                   /\ recommendations'[i].category \in
                         {"habit", "subject", "skill", "wellness", "learning_style"}
             /\ \A category \in {"habit", "subject", "skill", "wellness",
                                 "learning_style"} :
                   Cardinality(made(category)) <= 1
             /\ made("habit") # {} <=> Cardinality(recent_sessions) < LowActivity
             /\ made("subject") # {} <=>
                   /\ \E a \in recent_assessments :
                         ~FGeq(assessments[a].score_percentage, FInt(70))
                   /\ \E c \in 1..Len(contents) :
                         /\ contents[c].difficulty_level = "easy"
                         /\ RatedFour(contents[c])
             /\ made("skill") # {} <=>
                   /\ \E a \in recent_assessments :
                         FGeq(assessments[a].score_percentage, FInt(90))
                   /\ \E c \in 1..Len(contents) :
                         contents[c].difficulty_level = "hard"
             /\ made("wellness") # {} <=>
                   /\ TotalRecentStudyTime(recent_sessions) > 600
                   /\ 2 * TotalRecentStudyTime(recent_sessions)
                        > 90 * users[u].daily_study_goal_minutes
             /\ made("learning_style") # {} <=>
                   /\ InteractionTypes(RecentInteractions(u)) = {"article"}
                   /\ \E c \in 1..Len(contents) :
                         /\ contents[c].content_type = "video"
                         /\ RatedFour(contents[c])]_vars

\* A call created five recommendations, one of each rule.
C18_Witness ==
    /\ resp.op = "generate_recommendations"
    /\ resp.n = 5
    /\ Len(recommendations) = 5
    /\ { recommendations[i].category : i \in 1..5 } =
          {"habit", "subject", "skill", "wellness", "learning_style"}

(***************************************************************************)
(* The learning patterns (api/analytics.py get_learning_patterns).  The    *)
(* clock advances by half days; at noon user 1 opens at most one session   *)
(* a day, and reads the patterns of the shortest period at any time.       *)
(***************************************************************************)
MaxPatternDays == 8

\* days: int = Query(default=30, ge=7, le=90)
MinDays == 7

\* The clock advances by d seconds, up to a limit.
TickWithin(d, limit) ==
    /\ now + d <= limit
    /\ now' = now + d
    /\ resp' = Response("tick", 0, 0, 0)
    /\ UNCHANGED <<pending, users, sessions, assessments, questions, answers,
                   contents, interactions, progress, achievements, recommendations>>

\* len(set(s.start_time.date() for s in sessions)) / days * 100
StudyConsistency(found, days) ==
    LET session_dates == { Date(sessions[i].start_time) : i \in found }
    IN FMul(Frac(Cardinality(session_dates), days), FInt(100))

\* GET /analytics/learning-patterns?days= ; the response carries
\* round(study_consistency, 2), and 0 when there are no sessions.
GetLearningPatterns(u, days) ==
    LET found == { i \in 1..Len(sessions) :
                     /\ sessions[i].user_id = u
                     /\ sessions[i].start_time >= now - Days(days) }
    IN /\ resp' = Response("get_learning_patterns", u, 200,
                      IF found = {} THEN 0
                      ELSE Hundredths(Round2(StudyConsistency(found, days))))
       /\ UNCHANGED <<pending, now, AllTables>>

NextPatterns ==
    \/ TickWithin(43200, Days(MaxPatternDays))
    \/ /\ now % 86400 = 43200
       /\ \A s \in 1..Len(sessions) : Date(sessions[s].start_time) # Date(now)
       /\ CreateSession(1)
    \/ GetLearningPatterns(1, MinDays)

SpecPatterns == Init /\ [][NextPatterns]_vars

\* C26: the consistency score of the learning patterns, the number of
\* distinct dates with a session started in the window [now - days, now]
\* over days, times 100, never exceeds 100.
C26_ConsistencyAtMost100 ==
    resp.op = "get_learning_patterns" => resp.n <= 100 * 100

(***************************************************************************)
(* The linear trend of the assessment analytics (api/assessments.py        *)
(* get_assessment_analytics).  User 1 takes one quiz after the other,      *)
(* scores 0, 66.67 or 100 on each, and reads the analytics of the subject  *)
(* of the quizzes.                                                         *)
(***************************************************************************)
MaxTrendAssessments == 3

\* round(x, 4) of a float: the nearest multiple of 1/10000, a tie towards
\* the even one.
Round4(x) ==
    LET num == x.n * 10000
        q == num \div x.d
        twice == 2 * (num - q * x.d)
        r == IF twice > x.d THEN q + 1
             ELSE IF twice < x.d THEN q
             ELSE IF q % 2 = 0 THEN q ELSE q + 1
    IN Frac(r, 10000)

\* A number of four decimals in ten-thousandths.
TenThousandths(x) == x.n * (10000 \div x.d)

\* n * x_squared_sum - x_sum * x_sum for x = range(n)
TrendDenominator(n) ==
    LET x_sum == SumSeq([ i \in 1..n |-> i - 1 ])
        x_squared_sum == SumSeq([ i \in 1..n |-> (i - 1) * (i - 1) ])
    IN n * x_squared_sum - x_sum * x_sum

\* A trend whose xy_sum counts the scores from 1.
LinearTrend_FromOne(scores) ==
    IF Len(scores) > 1
    THEN LET n == Len(scores)
             x_sum == SumSeq([ i \in 1..n |-> i - 1 ])
             y_sum == FSumSeq(scores)
             xy_sum == FSumSeq([ i \in 1..n |-> FMul(FInt(i), scores[i]) ])
         IN FDiv(FSub(FMul(FInt(n), xy_sum), FMul(FInt(x_sum), y_sum)),
                 FInt(TrendDenominator(n)))
    ELSE FInt(0)

\* improvement_trend of a list of scores (enumerate counts from 0)
LinearTrend(scores) ==
    IF Len(scores) > 1
    THEN LET n == Len(scores)
             x_sum == SumSeq([ i \in 1..n |-> i - 1 ])
             y_sum == FSumSeq(scores)
             xy_sum == FSumSeq([ i \in 1..n |-> FMul(FInt(i - 1), scores[i]) ])
         IN FDiv(FSub(FMul(FInt(n), xy_sum), FMul(FInt(x_sum), y_sum)),
                 FInt(TrendDenominator(n)))
    ELSE FInt(0)

\* query.order_by(Assessment.created_at).all(): rows of equal time in
\* either order.
OrderedByCreation(S) ==
    { rows \in AnyOrder(S) :
        \A i, j \in DOMAIN rows :
           i < j => assessments[rows[i]].created_at <= assessments[rows[j]].created_at }

\* GET /assessments/analytics/performance?subject=&days= ; the response
\* carries round(improvement_trend, 4), and a division by zero is a 500.
GetAssessmentAnalytics(u, subject, days) ==
    LET found == { i \in WindowAssessments(u, days) :
                     subject # "" => assessments[i].subject = subject }
    IN /\ \E rows \in OrderedByCreation(found) :
            LET scores == [ i \in 1..Len(rows) |->
                              assessments[rows[i]].score_percentage ]
            IN resp' =
                 IF Len(scores) > 1 /\ TrendDenominator(Len(scores)) = 0
                 THEN Response("get_assessment_analytics", u, 500, 0)
                 ELSE Response("get_assessment_analytics", u, 200,
                               TenThousandths(Round4(LinearTrend(scores))))
       /\ UNCHANGED <<pending, now, AllTables>>

\* Scores of 0, 66.67 and 100 on the ten-point quiz.
ScoredSubmissions(a) ==
    LET ids == question_dict(a)
        q1 == IF ids = {} THEN 0 ELSE Min(ids)
    IN { << A(q1, <<"b">>, NoneStr) >>,
         << A(q1, <<"a">>, NoneStr), A(q1 + 1, <<"b">>, NoneStr) >>,
         << A(q1, <<"a">>, NoneStr) >> }

NextTrend ==
    \/ now = 0 /\ AssessmentsSettled /\ Tick(2700)
    \/ /\ AssessmentsSettled
       /\ Len(assessments) < MaxTrendAssessments
       /\ CreateAssessment(1, TrendQuiz)
    \/ \E a \in 1..Len(assessments) :
          assessments[a].status = "not_started" /\ StartAssessment(1, a)
    \/ \E a \in 1..Len(assessments) :
          /\ assessments[a].status = "in_progress"
          /\ \E submitted \in ScoredSubmissions(a) : SubmitAssessment(1, a, submitted)
    \/ AssessmentsSettled /\ GetAssessmentAnalytics(1, "math", 30)

SpecTrend == Init /\ [][NextTrend]_vars

\* The mean of a list of numbers.
FMean(seq) == FDiv(FSumSeq(seq), FInt(Len(seq)))

\* The least-squares slope of y over x = 0..n-1: the sum of
\* (x - mean x)(y - mean y) over the sum of (x - mean x)^2.
LeastSquaresSlope(y) ==
    LET n == Len(y)
        x == [ i \in 1..n |-> FInt(i - 1) ]
        mean_x == FMean(x)
        mean_y == FMean(y)
        cov == FSumSeq([ i \in 1..n |->
                   FMul(FSub(x[i], mean_x), FSub(y[i], mean_y)) ])
        var == FSumSeq([ i \in 1..n |->
                   FMul(FSub(x[i], mean_x), FSub(x[i], mean_x)) ])
    IN FDiv(cov, var)

\* C25: the linear trend of the assessment analytics is the least-squares
\* slope (n*Sxy - Sx*Sy) / (n*Sxx - Sx*Sx) of the scores over x = 0..n-1
\* (carried with four decimals), it is 0 for n <= 1, and for n >= 2 the
\* denominator is not 0, so that the request is never answered 500.
C25_TrendIsLeastSquares ==
    [][resp'.op = "get_assessment_analytics" =>
               LET found == { i \in WindowAssessments(1, 30) :
                                assessments[i].subject = "math" }
                   n == Cardinality(found)
               IN /\ resp'.code = 200
                  /\ n >= 2 => TrendDenominator(n) # 0
                  /\ n <= 1 => resp'.n = 0
                  /\ n >= 2 =>
                        \E rows \in OrderedByCreation(found) :
                           Frac(resp'.n, 10000) =
                              Round4(LeastSquaresSlope(
                                 [ i \in 1..n |-> assessments[rows[i]].score_percentage ]))]_vars

\* The trend of three assessments is reported, and it is not a whole
\* number.
C25_Witness ==
    /\ resp.op = "get_assessment_analytics"
    /\ Cardinality(WindowAssessments(1, 30)) = 3
    /\ resp.n % 10000 # 0

(***************************************************************************)
(* Views of a recommendation.  User 1 generates once; both users then read *)
(* the recommendation, respond to it, complete it and dismiss it while the *)
(* clock advances.                                                         *)
(***************************************************************************)
NextViews ==
    \/ Tick(2700)
    \/ recommendations = <<>> /\ GenerateRecommendations(1)
    \/ \E u \in Users : \E r \in 1..(Len(recommendations) + 1) :
          GetRecommendation(u, r)
    \/ \E u \in Users : \E r \in 1..Len(recommendations) :
          \E is_accepted \in BOOLEAN : RespondToRecommendation(u, r, is_accepted)
    \/ \E u \in Users : \E r \in 1..Len(recommendations) :
          CompleteRecommendation(u, r)
    \/ \E u \in Users : \E r \in 1..Len(recommendations) :
          DismissRecommendation(u, r)

SpecViews == Init /\ [][NextViews]_vars

\* C27: the first successful get-by-id of a recommendation by its owner
\* sets is_viewed and stamps viewed_at with the time of the call; nothing
\* else sets is_viewed, every later step leaves viewed_at as it is, and no
\* step resets is_viewed.
C27_ViewedOnce ==
    [][\A r \in 1..Len(recommendations) :
          LET old == recommendations[r]
              new == recommendations'[r]
              read == /\ resp'.op = "get_recommendation"
                      /\ resp'.code = 200
                      /\ resp'.n = r
          IN /\ (read /\ ~old.is_viewed) =>
                   (new.is_viewed /\ new.viewed_at = now)
             /\ (~old.is_viewed /\ new.is_viewed) =>
                   (read /\ resp'.user = old.user_id)
             /\ old.is_viewed =>
                   (new.is_viewed /\ new.viewed_at = old.viewed_at)]_vars

\* A read of a recommendation that was first read at an earlier time.
C27_Witness ==
    /\ resp.op = "get_recommendation"
    /\ resp.code = 200
    /\ recommendations[resp.n].is_viewed
    /\ recommendations[resp.n].viewed_at < now

(***************************************************************************)
(* A month with more than twenty sessions.  User 1 opens the sessions at   *)
(* time 0, the clock advances 30 or 45 minutes, and the sessions are       *)
(* completed one by one; recommendations are generated at any point.       *)
(***************************************************************************)
MaxWindowSessions == 21

NextWellness ==
    \/ /\ sessions = <<>> /\ recommendations = <<>>
       /\ users[1].daily_study_goal_minutes = NewUser.daily_study_goal_minutes
       /\ UpdateUserProfile(1, 10)
    \/ /\ now = 0 /\ recommendations = <<>>
       /\ Len(sessions) < MaxWindowSessions
       /\ CreateSession(1)
    \/ /\ now = 0 /\ sessions # <<>> /\ recommendations = <<>>
       /\ \E d \in {1800, 2700} : Tick(d)
    \/ \E s \in 1..Len(sessions) :
          /\ now > 0 /\ recommendations = <<>>
          /\ ~sessions[s].is_completed
          /\ \A t \in 1..(s - 1) : sessions[t].is_completed
          /\ CompleteSession(1, s)
    \/ recommendations = <<>> /\ GenerateRecommendations(1)

SpecWellness == Init /\ [][NextWellness]_vars

\* C24: a call of generate_recommendations inserts the wellness
\* recommendation exactly when the minutes of all the sessions the user
\* started in the last 30 days add up to more than 600 and their sum
\* divided by 30 is above one and a half daily goals, however many
\* sessions there are.
C24_WellnessOverAllSessions ==
    [][\A u \in Users :
          ( /\ resp'.op = "generate_recommendations"
            /\ resp'.user = u
            /\ GenerateRecommendations(u) ) =>
          LET total == TotalRecentStudyTime(RecentSessions(u))
          IN Inserted(recommendations', Len(recommendations), "wellness") # {}
               <=> ( /\ total > 600
                     /\ 2 * total > 90 * users[u].daily_study_goal_minutes )]_vars

(***************************************************************************)
(* Requests in flight at the same time.  Every request has a database      *)
(* session of its own (core/database.py get_db) and the handlers take no   *)
(* lock: what a request has read stays as it was read while other requests *)
(* commit.  Two requests served by two worker processes interleave at      *)
(* every statement; of these interleavings the model has the ones where    *)
(* the reads of a request are one step and its commit is another.          *)
(***************************************************************************)
\* check_for_new_achievements up to its commit: the lookups of the
\* milestones the user has crossed, and the rows db.add()ed for the ones
\* not found.
LookupAchievements(q, u) ==
    /\ pending[q] = Idle
    /\ pending' = [pending EXCEPT ![q] =
          [ op |-> "check_achievements", user |-> u,
            current_user |-> users[u], rows |-> Unlocked(u) ]]
    /\ UNCHANGED <<now, AllTables, resp>>

\* The rows of a request that looks every milestone up again at its commit.
RowsAdded_LookedUpAgain(q) == pending[q].rows \cap Unlocked(pending[q].user)

\* The rows the session of the request holds at db.commit().
RowsAdded(q) == pending[q].rows

\* db.commit() of check_for_new_achievements and the response.
CommitAchievements(q) ==
    /\ pending[q].op = "check_achievements"
    /\ achievements' = achievements (+) SetToBag(RowsAdded(q))
    /\ resp' = Response("check_achievements", pending[q].user, 200,
                        Cardinality(RowsAdded(q)))
    /\ pending' = [pending EXCEPT ![q] = Idle]
    /\ UNCHANGED <<now, users, sessions, assessments, questions, answers,
                   contents, interactions, progress, recommendations>>

\* Two requests check the achievements of users who cross the first
\* study-time milestone and score assessments.
NextCheckRace ==
    \/ \E u \in Users :
          /\ AllStudyTime < Min(time_milestones)
          /\ StudyTimeChanges(u, Min(time_milestones))
    \/ \E u \in Users : \E score \in Scores :
          /\ AllCompleted < MaxAssessments
          /\ AssessmentScored(u, score)
    \/ \E q \in Requests : \E u \in Users : LookupAchievements(q, u)
    \/ \E q \in Requests : CommitAchievements(q)

SpecCheckRace == Init /\ [][NextCheckRace]_vars

\* C19: a check commits the rows its own lookups found missing, whatever
\* another check of the same user has committed since those lookups, so
\* that two checks that both looked up before either committed both
\* insert: every row of the commit has one more copy afterwards.
C19_CommitInsertsLookedUpRows ==
    [][\A q \in Requests :
          ( /\ pending[q].op = "check_achievements"
            /\ pending'[q] = Idle ) =>
             \A row \in pending[q].rows :
                CopiesIn(row, achievements') = CopiesIn(row, achievements) + 1]_vars

\* Two Achievement rows of one user with the same achievement_type and
\* threshold_value, after the commits of two checks.
C19_Witness ==
    /\ resp.op = "check_achievements"
    /\ \A q \in Requests : pending[q] = Idle
    /\ \E row \in BagToSet(achievements) :
          /\ row.achievement_type = "time"
          /\ row.threshold_value = Min(time_milestones)
          /\ CopiesIn(row, achievements) = 2

\* get_current_user: the request loads its User object.
LoadCurrentUser(q, u) ==
    /\ pending[q] = Idle
    /\ pending' = [pending EXCEPT ![q] =
          [ op |-> "submit_assessment", user |-> u,
            current_user |-> users[u], rows |-> {} ]]
    /\ UNCHANGED <<now, AllTables, resp>>

\* A User object read again from the table when the body runs.
CurrentUser_Refreshed(q) == users[pending[q].user]

\* The User object of the request.
CurrentUser(q) == pending[q].current_user

\* submit_assessment after get_current_user: the body and its commit.
SubmitLoaded(q, a, submitted) ==
    /\ pending[q].op = "submit_assessment"
    /\ SubmitAssessmentAs(pending[q].user, a, submitted, CurrentUser(q))
    /\ pending' = [pending EXCEPT ![q] = Idle]

\* One user creates and starts assessments; two requests submit them.
NextSubmitRace ==
    \/ Len(assessments) < MaxAssessments /\ CreateAssessment(1, PlainQuiz)
    \/ \E a \in 1..Len(assessments) : StartAssessment(1, a)
    \/ \E q \in Requests : LoadCurrentUser(q, 1)
    \/ \E q \in Requests : \E a \in 1..Len(assessments) :
          \E submitted \in PlainSubmissions(a) : SubmitLoaded(q, a, submitted)

SpecSubmitRace == Init /\ [][NextSubmitRace]_vars

\* C20: a submit writes total_assessments_completed and average_score as
\* computed from the User object its request loaded, whatever other
\* submits of the user have committed since: the count becomes the loaded
\* count plus one and the average the running mean over the loaded values.
C20_UpdateFromLoadedUser ==
    [][\A q \in Requests :
          ( /\ pending[q].op = "submit_assessment"
            /\ pending'[q] = Idle
            /\ resp'.code = 200 ) =>
             LET u == pending[q].user
                 loaded == pending[q].current_user
                 a == CHOOSE x \in 1..Len(assessments) :
                         assessments'[x] # assessments[x]
             IN /\ users'[u].total_assessments_completed =
                      loaded.total_assessments_completed + 1
                /\ users'[u].average_score =
                      NewAverageScore(loaded.average_score,
                                      loaded.total_assessments_completed + 1,
                                      assessments'[a].score_percentage)]_vars

\* Both assessments of the user are completed and the count of completed
\* assessments has grown by one only.
C20_Witness ==
    /\ Cardinality(CompletedOf(1)) = 2
    /\ users[1].total_assessments_completed = 1
    /\ \A q \in Requests : pending[q] = Idle

(***************************************************************************)
(* The Answer rows of a submit: submissions that name a question once,     *)
(* twice, a question id that is not of the assessment, and three answers   *)
(* to the two questions.                                                   *)
(***************************************************************************)
RepeatedSubmissions(a) ==
    LET ids == question_dict(a)
        q1 == IF ids = {} THEN 0 ELSE Min(ids)
        q2 == IF ids = {} THEN 0 ELSE Max(ids)
    IN { << A(q1, <<"a">>, NoneStr), A(q2, <<"a">>, NoneStr) >>,
         << A(q1, <<"a">>, NoneStr), A(0, <<"a">>, NoneStr) >>,
         << A(q1, <<"a">>, NoneStr), A(q1, <<"b">>, NoneStr) >>,
         << A(q1, <<"a">>, NoneStr), A(q1, <<"a">>, NoneStr),
            A(q2, <<"a">>, NoneStr) >> }

NextAnswers ==
    \/ \E u \in Users :
          Len(assessments) < MaxAssessments /\ CreateAssessment(u, PlainQuiz)
    \/ \E u \in Users : \E a \in 1..Len(assessments) : StartAssessment(u, a)
    \/ \E u \in Users : \E a \in 1..Len(assessments) :
          \E submitted \in RepeatedSubmissions(a) :
             SubmitAssessment(u, a, submitted)

SpecAnswers == Init /\ [][NextAnswers]_vars

\* The Answer rows of assessment a for question q.
AnswerRows(rows, a, q) ==
    { i \in 1..Len(rows) : rows[i].assessment_id = a /\ rows[i].question_id = q }

\* C21: after a successful submit the assessment has exactly one Answer
\* row for every distinct submitted question id that is a question of the
\* assessment, and no Answer row for any other id.
C21_OneAnswerPerQuestion ==
    [][\A u \in Users : \A a \in 1..Len(assessments) :
          ( /\ resp'.op = "submit_assessment"
            /\ resp'.user = u
            /\ resp'.code = 200
            /\ assessments'[a] # assessments[a] ) =>
             \A submitted \in RepeatedSubmissions(a) :
                SubmitAssessment(u, a, submitted) =>
                   LET named == { submitted[i].question_id : i \in 1..Len(submitted) }
                   IN /\ \A q \in named \cap question_dict(a) :
                            Cardinality(AnswerRows(answers', a, q)) = 1
                      /\ \A i \in 1..Len(answers') :
                            answers'[i].assessment_id = a =>
                               answers'[i].question_id \in named \cap question_dict(a)]_vars

\* C30: for every completed assessment correct_answers <= questions_answered
\* <= total_questions, whatever answer list was submitted, also one with
\* question ids of another assessment or with a question id repeated.
C30_AnsweredWithinTotal ==
    \A a \in 1..Len(assessments) :
        assessments[a].status = "completed" =>
           /\ assessments[a].correct_answers <= assessments[a].questions_answered
           /\ assessments[a].questions_answered <= assessments[a].total_questions


====
